---------------------------- MODULE Spec2Model ----------------------------
(***************************************************************************)
(* Model of the scout device's MotionDetector                              *)
(* (src/scout_arduino/motion_detect.h).                                    *)
(*                                                                         *)
(* One MotionDetector object is alive at a time; it can be destroyed and   *)
(* another one constructed.  The function-local statics of                 *)
(* detectFromJpegSize (prevJpegSize, jpegSizeHistory, historyIdx) belong   *)
(* to the program, not to the object, and survive both.                    *)
(*                                                                         *)
(* float values (sizePercent, confidence, minSizePercent, maxSizePercent)  *)
(* are exact rationals <<numerator, denominator>> in lowest terms; every   *)
(* float comparison of the code compares two such rationals.               *)
(*                                                                         *)
(* The trap device's diagnostics (src/mousetrap_arduino) are modelled next *)
(* to it, one variable per header; they share no state with the detector.  *)
(***************************************************************************)
EXTENDS Integers, Sequences, FiniteSets, TLC

VARIABLES
  obj,                \* "live" | "dead" (destroyed) | "crashed" (integer divide by zero)
  config,             \* MotionConfig
  prevFrame,          \* uint8_t* prevFrame: [null, data]
  prevWidth,
  prevHeight,
  lastDetectionTime,
  prevJpegSize,       \* static size_t prevJpegSize
  jpegSizeHistory,    \* static size_t jpegSizeHistory[5], indexed 0..4
  historyIdx,         \* static int historyIdx
  now,                \* the last value millis() returned
  elapsed,            \* milliseconds the clock has advanced since Init
  result,             \* the MotionResult the last detect() returned
  call,               \* the last call made on the detector, as the caller saw it
  accepted,           \* the last detect() of this detector that returned detected = true
                      \* since its construction or last reset(): [any, at]
  jpegCalls,          \* encoded-frame detect() calls made on this detector, counted to 3
  instA,              \* a second MotionDetector of the program, fed encoded frames
                      \* only: [lastDetectionTime]
  solo,               \* the size history and last heuristic result this detector
                      \* would have, had only its own calls written the history
  resetCalls,         \* encoded-frame detect() calls made since the last reset() of
                      \* this detector, counted to 3; 3 when it was never reset
  heap,               \* the buffers got from heap_caps_malloc and not yet freed:
                      \* [live, size, doubleFree]
  pending,            \* "nomem" after a failed allocation, "reset" after reset(),
                      \* until the next valid grayscale frame is submitted; else "-"
  lastGray,           \* the pixels of the last valid grayscale frame given to a
                      \* detect() that the cooldown check let through
  recorded,           \* the encoded frames that reached detectFromJpegSize since
                      \* the program started: [last, n], the byte lengths of the
                      \* last 5 in call order and their number, counted to 6
  tasks,              \* debug_tasks.h: g_task_count, g_task_stats, g_task_mutex and
                      \* the tasks that are inside debugTasksRegister
  servo,              \* servo_optional.h: disableServo, one SafeServo, the Servo it
                      \* wraps, the pin modes, and the last call made on it
  fbStats,            \* debug_framebuffer.h: the counters of g_fb_stats and what
                      \* the last debugFramebufferPrintStats() reported
  i2c,                \* debug_i2c.h: g_i2c_sensors, the statistics of each sensor
  context             \* debug_context.h: g_context_buf and what the last call gave

\* The variables of the motion detector, and those of the diagnostics.
detector ==
  <<obj, config, prevFrame, prevWidth, prevHeight, lastDetectionTime,
    prevJpegSize, jpegSizeHistory, historyIdx, now, elapsed, result, call,
    accepted, jpegCalls, instA, solo, resetCalls, heap, pending, lastGray,
    recorded>>
diagnostics == <<tasks, servo, fbStats, i2c, context>>

vars == <<detector, diagnostics>>

----------------------------------------------------------------------------
(* Integer widths *)

U8  == 256
U16 == 65536

\* A uint32_t value is the pair <<high half, low half>> of its 16-bit halves.
Zero32 == <<0, 0>>
\* a + n modulo 2^32, for a natural number n
Add32(a, n) ==
  LET lo == a[2] + n
  IN <<(a[1] + (lo \div U16)) % U16, lo % U16>>
\* a - b modulo 2^32
Sub32(a, b) ==
  LET borrow == IF a[2] < b[2] THEN 1 ELSE 0
  IN <<(a[1] + U16 - b[1] - borrow) % U16, (a[2] + U16 - b[2]) % U16>>
\* a < n, for a natural number n below 2^16 (a uint16_t operand)
Less32(a, n) == a[1] = 0 /\ a[2] < n

Abs(i) == IF i < 0 THEN -i ELSE i
MinOf(S) == CHOOSE m \in S : \A o \in S : m <= o
MaxOf(S) == CHOOSE m \in S : \A o \in S : m >= o

----------------------------------------------------------------------------
(* float arithmetic, as exact rationals *)

RECURSIVE Gcd(_, _)
Gcd(a, b) == IF b = 0 THEN a ELSE Gcd(b, a % b)

Rat(n, d) == LET g == Gcd(n, d) IN <<n \div g, d \div g>>
RatZero == <<0, 1>>
RatOne == <<1, 1>>
RatLess(a, b) == a[1] * b[2] < b[1] * a[2]
RatMin(a, b) == IF RatLess(b, a) THEN b ELSE a

----------------------------------------------------------------------------
(* MotionConfig and MotionResult *)

DefaultThreshold == 25
DefaultBlockSize == 16
DefaultCooldownMs == 2000
HistorySlots == 5

\* MotionDetector(): the default configuration
DefaultConfig ==
  [threshold |-> DefaultThreshold, minSizePercent |-> Rat(1, 1),
   maxSizePercent |-> Rat(30, 1), blockSize |-> DefaultBlockSize,
   cooldownMs |-> DefaultCooldownMs]

\* MotionResult result = {false, false, 0, 0, 0, 0, 0.0, 0, 0, 0.0}
ZeroResult ==
  [detected |-> FALSE, sizeFiltered |-> FALSE, x |-> 0, y |-> 0, width |-> 0,
   height |-> 0, sizePercent |-> RatZero, changedBlocks |-> 0,
   totalBlocks |-> 0, confidence |-> RatZero]

\* The bytes of a w*h pixel buffer, row-major: value v inside the rectangle of
\* columns x0..x1 and rows y0..y1, bg elsewhere.  A buffer's contents are kept
\* as this description and read byte by byte with Byte.
RectPixels(w, h, bg, x0, y0, x1, y1, v) ==
  [w |-> w, h |-> h, bg |-> bg, x0 |-> x0, y0 |-> y0, x1 |-> x1, y1 |-> y1,
   v |-> v]

UniformPixels(w, h, v) == RectPixels(w, h, v, 0, 0, -1, -1, v)

\* no bytes at all
NoBytes == UniformPixels(0, 0, 0)

\* buf[idx], idx counted from 0
Byte(px, idx) ==
  LET x == idx % px.w
      y == idx \div px.w
  IN IF x >= px.x0 /\ x <= px.x1 /\ y >= px.y0 /\ y <= px.y1 THEN px.v
     ELSE px.bg

NullBuffer == [null |-> TRUE, data |-> NoBytes]
Buffer(bytes) == [null |-> FALSE, data |-> bytes]

----------------------------------------------------------------------------
(* camera_fb_t frames *)

\* A grayscale frame: one byte per pixel, row-major, width*height bytes.
GrayFrame(w, h, px) ==
  [ptr |-> "frame", buf |-> Buffer(px), len |-> w * h, width |-> w,
   height |-> h, format |-> "GRAYSCALE"]

\* An encoded frame of n bytes; the bytes themselves are never read.
JpegFrame(w, h, n) ==
  [ptr |-> "frame", buf |-> Buffer(NoBytes), len |-> n, width |-> w,
   height |-> h, format |-> "JPEG"]


----------------------------------------------------------------------------
(* detect(): the cooldown check *)

\* variants: no cooldown check; a check against half the interval
CooldownNever(t, last, cooldownMs) == FALSE
CooldownHalf(t, last, cooldownMs) == Less32(Sub32(t, last), cooldownMs \div 2)

\* millis() - lastDetectionTime < config.cooldownMs, in unsigned 32-bit arithmetic
CooldownActive(t, last, cooldownMs) == Less32(Sub32(t, last), cooldownMs)

----------------------------------------------------------------------------
(* detect(): the block comparison *)

RECURSIVE RowDiff(_, _, _, _, _)
\* the inner px loop: the sum of |frame - prev| over the pixels px with
\* lo <= px < hi of the row that starts at index base (0-based); the sum is
\* taken by halves
RowDiff(cur, prev, base, lo, hi) ==
  IF hi <= lo THEN 0
  ELSE IF hi = lo + 1 THEN Abs(Byte(cur, base + lo) - Byte(prev, base + lo))
  ELSE LET mid == (lo + hi) \div 2
       IN RowDiff(cur, prev, base, lo, mid) + RowDiff(cur, prev, base, mid, hi)

RECURSIVE BlockRows(_, _, _, _, _, _, _, _)
\* the py loop: the sum over the rows py with lo <= py < hi of block (bx, by)
BlockRows(cur, prev, width, bs, bx, by, lo, hi) ==
  IF hi <= lo THEN 0
  ELSE IF hi = lo + 1
  THEN RowDiff(cur, prev, (by * bs + lo) * width + bx * bs, 0, bs)
  ELSE LET mid == (lo + hi) \div 2
       IN BlockRows(cur, prev, width, bs, bx, by, lo, mid)
          + BlockRows(cur, prev, width, bs, bx, by, mid, hi)

\* uint32_t blockDiff of block (bx, by); at most 255 * bs * bs, which 32 bits
\* hold for every blockSize a frame (at most 65535 pixels wide) has a block of
BlockDiff(cur, prev, width, bs, bx, by) ==
  BlockRows(cur, prev, width, bs, bx, by, 0, bs)

\* uint16_t pixelsInBlock = config.blockSize * config.blockSize
PixelsInBlock(bs) == (bs * bs) % U16

\* uint8_t avgDiff = blockDiff / pixelsInBlock
AvgDiff(blockDiff, pixelsInBlock) == (blockDiff \div pixelsInBlock) % U8

\* if (avgDiff > config.threshold)
BlockChanged(cur, prev, width, bs, threshold, bx, by) ==
  AvgDiff(BlockDiff(cur, prev, width, bs, bx, by), PixelsInBlock(bs)) > threshold

\* The blocks the two loops count in changedBlocks.
ChangedBlockSet(cur, prev, width, height, bs, threshold) ==
  {b \in (0..((width \div bs) - 1)) \X (0..((height \div bs) - 1)) :
     BlockChanged(cur, prev, width, bs, threshold, b[1], b[2])}

\* variant: a partial block at the edge counted as a block
BlocksCeil(extent, bs) == ((extent + bs - 1) \div bs) % U16

\* uint16_t blocksX = width / config.blockSize (and blocksY)
BlocksAlong(extent, bs) == (extent \div bs) % U16

\* variant: the lower bound tested, the upper bound not
SizeFilteredLow(sizePercent, cfg) == RatLess(sizePercent, cfg.minSizePercent)

\* variant: the two bounds taken as exclusive (<= and >=)
SizeFilteredOpen(sizePercent, cfg) ==
  ~RatLess(cfg.minSizePercent, sizePercent) \/ ~RatLess(sizePercent, cfg.maxSizePercent)

\* if (result.sizePercent < config.minSizePercent) ... else if (result.sizePercent > config.maxSizePercent)
SizeFiltered(sizePercent, cfg) ==
  RatLess(sizePercent, cfg.minSizePercent) \/ RatLess(cfg.maxSizePercent, sizePercent)

\* variant: the block ratio scaled by five and not capped
UncappedConfidence(changedBlocks, totalBlocks) ==
  Rat(5 * changedBlocks, totalBlocks)

\* result.confidence = min(1.0f, blockRatio * 5.0f)
BlockConfidence(changedBlocks, totalBlocks) ==
  RatMin(RatOne, Rat(5 * changedBlocks, totalBlocks))

\* variant: the extent from the first to the last changed block, the last excluded
BoxExtentOpen(lo, hi, bs) == ((hi - lo) * bs) % U16

\* result.width = (maxX - minX + 1) * config.blockSize (and result.height)
BoxExtent(lo, hi, bs) == ((hi - lo + 1) * bs) % U16

\* The MotionResult of a comparison whose changed blocks are `changed`.
CompareResult(f, changed, cfg) ==
  LET bs == cfg.blockSize
      blocksX == BlocksAlong(f.width, bs)
      blocksY == BlocksAlong(f.height, bs)
      total == blocksX * blocksY
      n == Cardinality(changed)
  IN IF n = 0 THEN [ZeroResult EXCEPT !.totalBlocks = total]
     ELSE LET minX == MinOf({b[1] : b \in changed} \cup {blocksX})
              minY == MinOf({b[2] : b \in changed} \cup {blocksY})
              maxX == MaxOf({b[1] : b \in changed} \cup {0})
              maxY == MaxOf({b[2] : b \in changed} \cup {0})
              bw == BoxExtent(minX, maxX, bs)
              bh == BoxExtent(minY, maxY, bs)
              pct == Rat(100 * bw * bh, f.width * f.height)
              filtered == SizeFiltered(pct, cfg)
          IN [detected |-> ~filtered, sizeFiltered |-> filtered,
              x |-> (minX * bs) % U16, y |-> (minY * bs) % U16,
              width |-> bw, height |-> bh, sizePercent |-> pct,
              changedBlocks |-> n, totalBlocks |-> total,
              confidence |-> BlockConfidence(n, total)]

----------------------------------------------------------------------------
(* allocatePrevFrame() *)

EmptyHeap == [live |-> 0, size |-> 0, doubleFree |-> FALSE]

\* variant: the old buffer not freed before the new allocation
Leaked(h, p) == h

\* if (prevFrame) heap_caps_free(prevFrame): freeing a buffer that is not live
\* is a double free
HeapFree(h, p) ==
  IF p.null THEN h
  ELSE IF h.live = 0 THEN [h EXCEPT !.doubleFree = TRUE]
  ELSE [h EXCEPT !.live = @ - 1, !.size = 0]

\* a heap_caps_malloc(size, ...) that returned a buffer
HeapAlloc(h, size) == [h EXCEPT !.live = @ + 1, !.size = size]

\* variant: the dimensions left as they were when both allocations fail
DimsKept(f) == <<prevWidth, prevHeight>>

\* prevWidth = 0; prevHeight = 0 when both allocations fail
DimsAfterFailure(f) == <<0, 0>>

\* heap_caps_malloc(size, MALLOC_CAP_SPIRAM | MALLOC_CAP_8BIT), then
\* heap_caps_malloc(size, MALLOC_CAP_8BIT); mem names the pool that has room.
\* TRUE when one of the two returns a buffer.
AllocSucceeds(mem) == mem \in {"psram", "ram"}

----------------------------------------------------------------------------
(* detectFromJpegSize() *)

\* the loop over jpegSizeHistory: validCount
ValidCount(hist) == Cardinality({i \in 0..(HistorySlots - 1) : hist[i] > 0})

RECURSIVE HistorySum(_, _)
HistorySum(hist, i) ==
  IF i >= HistorySlots THEN 0 ELSE hist[i] + HistorySum(hist, i + 1)

\* variant: the sum divided by the number of slots, empty ones included
AvgOfSlots(hist) == HistorySum(hist, 0) \div HistorySlots

\* avgSize after "if (validCount > 0) avgSize /= validCount"
AvgSize(hist) ==
  IF ValidCount(hist) > 0 THEN HistorySum(hist, 0) \div ValidCount(hist)
  ELSE HistorySum(hist, 0)

\* float sizeDiff = abs((float)frame->len - (float)avgSize) / (float)avgSize * 100.0
SizeDiff(len, avgSize) == Rat(100 * Abs(len - avgSize), avgSize)

\* if (prevJpegSize == 0 || validCount < 3)
WarmingUp(prevSize, validCount) == prevSize = 0 \/ validCount < 3

\* lines 227-253: the verdict on a size deviation
JpegVerdict(f, sizeDiff) ==
  IF RatLess(Rat(10, 1), sizeDiff)
  THEN LET filtered == RatLess(sizeDiff, Rat(3, 1)) \/ RatLess(Rat(50, 1), sizeDiff)
       IN [detected |-> ~filtered, sizeFiltered |-> filtered,
           x |-> f.width \div 4, y |-> f.height \div 4,
           width |-> f.width \div 2, height |-> f.height \div 2,
           sizePercent |-> sizeDiff, changedBlocks |-> 0, totalBlocks |-> 0,
           confidence |-> RatMin(RatOne, Rat(sizeDiff[1], 30 * sizeDiff[2]))]
  ELSE ZeroResult

\* variant: the ring as it was before the call
WithoutCurrent(ring, cursor, len) == ring

\* jpegSizeHistory[historyIdx] = frame->len
WithCurrent(ring, cursor, len) == [ring EXCEPT ![cursor] = len]

\* variant: the cursor left where it was
StuckCursor(cursor) == cursor

\* historyIdx = (historyIdx + 1) % 5
NextCursor(cursor) == (cursor + 1) % HistorySlots

\* detectFromJpegSize(frame) on a history (ring, cursor, previous size): the
\* new history and the result
JpegOutcomeOn(f, ring, cursor, prevSize) ==
  LET hist == WithCurrent(ring, cursor, f.len)
      idx == NextCursor(cursor)
      warm == WarmingUp(prevSize, ValidCount(hist))
  IN [path |-> IF warm THEN "jpeg-warmup" ELSE "jpeg",
      result |-> IF warm THEN ZeroResult
                 ELSE JpegVerdict(f, SizeDiff(f.len, AvgSize(hist))),
      hist |-> hist, idx |-> idx, prevSize |-> f.len]

\* detectFromJpegSize(frame): the new statics and the result
JpegOutcome(f) == JpegOutcomeOn(f, jpegSizeHistory, historyIdx, prevJpegSize)

\* The record of the encoded frames that reached detectFromJpegSize, after
\* one more of len bytes did.
Recorded(rec, len) ==
  [last |-> IF Len(rec.last) < HistorySlots THEN Append(rec.last, len)
            ELSE Append(Tail(rec.last), len),
   n |-> IF rec.n > HistorySlots THEN rec.n ELSE rec.n + 1]

\* A history with nothing recorded.
EmptyHistory ==
  [hist |-> [i \in 0..(HistorySlots - 1) |-> 0], idx |-> 0, prevSize |-> 0,
   result |-> ZeroResult]

----------------------------------------------------------------------------
(* detect() *)

\* variant: the two pointer tests without the length test
NullFrame(f) == f.ptr = "null" \/ f.buf.null

\* if (!frame || !frame->buf || frame->len == 0)
InvalidFrame(f) == f.ptr = "null" \/ f.buf.null \/ f.len = 0

\* variant: every format taken as grayscale
AnyFormat(f) == FALSE

\* if (frame->format != PIXFORMAT_GRAYSCALE), reached by frames that are not JPEG
Unsupported(f) == f.format # "GRAYSCALE"

\* variant: the null test without the two dimension tests
NoBaseline(f) == prevFrame.null
\* variant: the null test and the height test, without the width test
HeightChanged(f) == prevFrame.null \/ prevHeight # f.height

\* if (!prevFrame || prevWidth != width || prevHeight != height)
FirstObservation(f) ==
  prevFrame.null \/ prevWidth # f.width \/ prevHeight # f.height

\* The comparison divides by blockSize, and by pixelsInBlock once a block exists.
DividesByZero(f, cfg) ==
  \/ cfg.blockSize = 0
  \/ /\ PixelsInBlock(cfg.blockSize) = 0
     /\ BlocksAlong(f.width, cfg.blockSize) > 0
     /\ BlocksAlong(f.height, cfg.blockSize) > 0

\* variant: the comparison without the copy that follows it
KeepBaseline(f) == prevFrame

\* memcpy(prevFrame, frame->buf, frameSize) after the comparison
StoreCurrent(f) == Buffer(f.buf.data)

\* What one detect(frame) call does, with the clock at t0 on entry and the
\* allocator in state mem: the path taken, the result and the new fields.
DetectOutcome(f, t0, mem) ==
  LET keep == [path |-> "invalid", result |-> ZeroResult, prevFrame |-> prevFrame,
               prevWidth |-> prevWidth, prevHeight |-> prevHeight,
               hist |-> jpegSizeHistory, idx |-> historyIdx,
               prevSize |-> prevJpegSize, heap |-> heap]
  IN IF InvalidFrame(f) THEN keep
     ELSE IF CooldownActive(t0, lastDetectionTime, config.cooldownMs)
     THEN [keep EXCEPT !.path = "cooldown"]
     ELSE IF f.format = "JPEG"
     THEN LET j == JpegOutcome(f)
          IN [keep EXCEPT !.path = j.path, !.result = j.result, !.hist = j.hist,
                          !.idx = j.idx, !.prevSize = j.prevSize]
     ELSE IF Unsupported(f) THEN [keep EXCEPT !.path = "unsupported"]
     ELSE IF FirstObservation(f)
     THEN IF AllocSucceeds(mem)
          THEN [keep EXCEPT !.path = "first", !.prevFrame = Buffer(f.buf.data),
                            !.prevWidth = f.width, !.prevHeight = f.height,
                            !.heap = HeapAlloc(HeapFree(heap, prevFrame),
                                               f.width * f.height)]
          ELSE [keep EXCEPT !.path = "first-nomem", !.prevFrame = NullBuffer,
                            !.prevWidth = DimsAfterFailure(f)[1],
                            !.prevHeight = DimsAfterFailure(f)[2],
                            !.heap = HeapFree(heap, prevFrame)]
     ELSE IF DividesByZero(f, config) THEN [keep EXCEPT !.path = "crash"]
     ELSE [keep EXCEPT
             !.path = "compare",
             !.result = CompareResult(f,
                          ChangedBlockSet(f.buf.data, prevFrame.data, f.width,
                                          f.height, config.blockSize, config.threshold),
                          config),
             !.prevFrame = StoreCurrent(f)]

\* detect(nullptr), and the frame of a call that takes none
NoFrame ==
  [ptr |-> "null", buf |-> NullBuffer, len |-> 0, width |-> 0, height |-> 0,
   format |-> "NONE"]

NoCall(op, t) ==
  [op |-> op, frame |-> NoFrame, path |-> "-", at |-> t, prior |-> "-",
   held |-> FALSE, same |-> FALSE]
NotAccepted == [any |-> FALSE, at |-> Zero32]

\* A call at clock t0 falls less than cooldownMs after lastDetectionTime,
\* modulo 2^32: the call of a valid frame is then suppressed.
WithinCooldown(t0) == Less32(Sub32(t0, lastDetectionTime), config.cooldownMs)

\* The allocator states worth telling apart for a call: only a first
\* observation allocates.
Pools(f, t0) ==
  IF /\ ~InvalidFrame(f)
     /\ ~CooldownActive(t0, lastDetectionTime, config.cooldownMs)
     /\ f.format = "GRAYSCALE"
     /\ FirstObservation(f)
  THEN {"psram", "ram", "none"}
  ELSE {"psram"}

\* variant: a size-filtered result stamped as well
StampFiltered(res, t1) ==
  IF res.detected \/ res.sizeFiltered THEN t1 ELSE lastDetectionTime

\* if (result.detected) lastDetectionTime = millis(), on both paths; t1 is the
\* value that millis() call returns
Stamp(res, t1) == IF res.detected THEN t1 ELSE lastDetectionTime

\* detect(frame), called dt ms after the previous call; an accepted detection
\* reads millis() again, dur ms after the cooldown check.
Detect(f, dt, maxElapsed, durations) ==
  /\ obj = "live"
  /\ elapsed + dt < maxElapsed
  /\ LET t0 == Add32(now, dt)
     IN \E mem \in Pools(f, t0) :
        \E o \in {DetectOutcome(f, t0, mem)} :
          LET hit == o.result.detected
          IN \E dur \in (IF hit THEN durations ELSE {0}) :
               LET t1 == Add32(t0, dur)
               IN /\ obj' = IF o.path = "crash" THEN "crashed" ELSE "live"
                  /\ prevFrame' = o.prevFrame
                  /\ prevWidth' = o.prevWidth
                  /\ prevHeight' = o.prevHeight
                  /\ lastDetectionTime' = Stamp(o.result, t1)
                  /\ prevJpegSize' = o.prevSize
                  /\ jpegSizeHistory' = o.hist
                  /\ historyIdx' = o.idx
                  /\ now' = t1
                  /\ elapsed' = elapsed + dt + dur
                  /\ result' = IF o.path = "crash" THEN result ELSE o.result
                  /\ call' = [op |-> "detect", frame |-> f, path |-> o.path,
                               at |-> t0,
                               prior |-> IF call.op = "detect" /\ call.frame = f
                                         THEN call.path ELSE "-",
                               held |-> ~prevFrame.null,
                               same |-> prevFrame.data = f.buf.data]
                  /\ accepted' = IF hit THEN [any |-> TRUE, at |-> t1] ELSE accepted
                  /\ jpegCalls' = IF f.ptr # "null" /\ f.format = "JPEG" /\ jpegCalls < 3
                                  THEN jpegCalls + 1 ELSE jpegCalls
                  /\ solo' = IF o.path \in {"jpeg", "jpeg-warmup"}
                              THEN LET j == JpegOutcomeOn(f, solo.hist, solo.idx,
                                                          solo.prevSize)
                                   IN [hist |-> j.hist, idx |-> j.idx,
                                       prevSize |-> j.prevSize, result |-> j.result]
                              ELSE solo
                  /\ resetCalls' = IF f.ptr # "null" /\ f.format = "JPEG" /\ resetCalls < 3
                                   THEN resetCalls + 1 ELSE resetCalls
                  /\ heap' = o.heap
                  /\ pending' = IF o.path = "first-nomem" THEN "nomem"
                                 ELSE IF ~InvalidFrame(f) /\ f.format = "GRAYSCALE"
                                 THEN "-" ELSE pending
                  /\ lastGray' = IF /\ ~InvalidFrame(f)
                                     /\ f.format = "GRAYSCALE"
                                     /\ ~WithinCooldown(t0)
                                  THEN f.buf.data ELSE lastGray
                  /\ recorded' = IF o.path \in {"jpeg", "jpeg-warmup"}
                                  THEN Recorded(recorded, f.len) ELSE recorded
                  /\ UNCHANGED <<config, instA>>
                  /\ UNCHANGED diagnostics

\* setConfig(cfg)
SetConfig(cfg) ==
  /\ obj = "live"
  /\ config' = cfg
  /\ call' = NoCall("setConfig", now)
  /\ UNCHANGED <<obj, prevFrame, prevWidth, prevHeight, lastDetectionTime,
                 prevJpegSize, jpegSizeHistory, historyIdx, now, elapsed, result,
                 accepted, jpegCalls, instA, solo, resetCalls, heap, pending, lastGray,
                 recorded>>
  /\ UNCHANGED diagnostics

\* variant: the pointer kept after the free
Dangling(p) == p

\* prevFrame = nullptr after heap_caps_free(prevFrame) in reset()
Released(p) == NullBuffer

\* reset()
Reset ==
  /\ obj = "live"
  /\ prevFrame' = Released(prevFrame)
  /\ prevWidth' = 0
  /\ prevHeight' = 0
  /\ lastDetectionTime' = Zero32
  /\ call' = NoCall("reset", now)
  /\ accepted' = NotAccepted
  /\ heap' = HeapFree(heap, prevFrame)
  /\ pending' = "reset"
  /\ resetCalls' = 0
  /\ UNCHANGED <<obj, config, prevJpegSize, jpegSizeHistory, historyIdx, now,
                 elapsed, result, jpegCalls, instA, solo, lastGray,
                 recorded>>
  /\ UNCHANGED diagnostics

\* ~MotionDetector()
Destroy ==
  /\ obj = "live"
  /\ obj' = "dead"
  /\ prevFrame' = NullBuffer
  /\ call' = NoCall("destroy", now)
  /\ heap' = HeapFree(heap, prevFrame)
  /\ UNCHANGED <<config, prevWidth, prevHeight, lastDetectionTime, prevJpegSize,
                 jpegSizeHistory, historyIdx, now, elapsed, result, accepted,
                 jpegCalls, instA, solo, resetCalls, pending, lastGray,
                 recorded>>
  /\ UNCHANGED diagnostics

\* MotionDetector(): a new detector, after the previous one was destroyed
Construct ==
  /\ obj = "dead"
  /\ obj' = "live"
  /\ config' = DefaultConfig
  /\ prevFrame' = NullBuffer
  /\ prevWidth' = 0
  /\ prevHeight' = 0
  /\ lastDetectionTime' = Zero32
  /\ result' = ZeroResult
  /\ call' = NoCall("construct", now)
  /\ accepted' = NotAccepted
  /\ jpegCalls' = 0
  /\ pending' = "-"
  /\ resetCalls' = 3
  /\ solo' = EmptyHistory
  /\ UNCHANGED <<prevJpegSize, jpegSizeHistory, historyIdx, now, elapsed, heap,
                 instA, lastGray,
                 recorded>>
  /\ UNCHANGED diagnostics

\* detect(frame) on the second detector (default configuration), for a valid
\* encoded frame: its own cooldown check, then detectFromJpegSize on the statics
DetectOther(f, dt, maxElapsed) ==
  /\ obj = "live"
  /\ elapsed + dt < maxElapsed
  /\ ~InvalidFrame(f) /\ f.format = "JPEG"
  /\ LET t0 == Add32(now, dt)
         suppressed == CooldownActive(t0, instA.lastDetectionTime, DefaultCooldownMs)
         j == JpegOutcome(f)
     IN /\ prevJpegSize' = IF suppressed THEN prevJpegSize ELSE j.prevSize
        /\ jpegSizeHistory' = IF suppressed THEN jpegSizeHistory ELSE j.hist
        /\ historyIdx' = IF suppressed THEN historyIdx ELSE j.idx
        /\ instA' = IF ~suppressed /\ j.result.detected
                    THEN [lastDetectionTime |-> t0] ELSE instA
        /\ recorded' = IF suppressed THEN recorded ELSE Recorded(recorded, f.len)
        /\ now' = t0
        /\ elapsed' = elapsed + dt
  /\ UNCHANGED <<obj, config, prevFrame, prevWidth, prevHeight, lastDetectionTime,
                 result, call, accepted, jpegCalls, solo, resetCalls, heap,
                 pending, lastGray>>
  /\ UNCHANGED diagnostics

----------------------------------------------------------------------------
(* debug_tasks.h: debugTasksRegister() called by several tasks *)

\* #define MAX_TRACKED_TASKS 10
MAX_TRACKED_TASKS == 10

\* The tasks that call debugTasksRegister, each with its own handle.
Callers == {1, 2}

\* The indices g_task_count can point at: those of g_task_stats, and the
\* memory after it, as far as the callers can push the count.
Indices == 0..(MAX_TRACKED_TASKS + Cardinality(Callers) - 1)

\* After debugTasksInit(): the array zeroed, the count 0, the mutex created
\* and free.  pc, ret and slot are each caller's position in
\* debugTasksRegister, the value its last call returned and the index that
\* call wrote (-1: none); writes counts the stores made at each index; beyond
\* is the set of indices outside g_task_stats that were written.
TasksAfterInit ==
  [count |-> 0,
   stats |-> [i \in 0..(MAX_TRACKED_TASKS - 1) |-> 0],
   beyond |-> {},
   mutex |-> TRUE,
   holder |-> 0,
   pc |-> [t \in Callers |-> "idle"],
   ret |-> [t \in Callers |-> "-"],
   slot |-> [t \in Callers |-> -1],
   writes |-> [i \in Indices |-> 0]]

\* if (!g_task_mutex || g_task_count >= MAX_TRACKED_TASKS) return false;
\* evaluated before the mutex is taken
RegisterCheck(t) ==
  /\ tasks.pc[t] = "idle"
  /\ IF ~tasks.mutex \/ tasks.count >= MAX_TRACKED_TASKS
     THEN tasks' = [tasks EXCEPT !.ret[t] = "false", !.slot[t] = -1]
     ELSE tasks' = [tasks EXCEPT !.pc[t] = "checked", !.ret[t] = "-",
                                 !.slot[t] = -1]
  /\ UNCHANGED <<detector, servo, fbStats, i2c, context>>

\* xSemaphoreTake(g_task_mutex, portMAX_DELAY): blocks while another task
\* holds the mutex
RegisterTake(t) ==
  /\ tasks.pc[t] = "checked"
  /\ tasks.holder = 0
  /\ tasks' = [tasks EXCEPT !.pc[t] = "locked", !.holder = t]
  /\ UNCHANGED <<detector, servo, fbStats, i2c, context>>

\* task = &g_task_stats[g_task_count]; task->handle = handle; ...;
\* g_task_count++; xSemaphoreGive(g_task_mutex); return true.  A store at an
\* index of 10 or more lands in the memory after the array.
RegisterStore(t) ==
  /\ tasks.pc[t] = "locked"
  /\ LET i == tasks.count
     IN tasks' =
          [tasks EXCEPT
             !.stats = IF i < MAX_TRACKED_TASKS THEN [@ EXCEPT ![i] = t] ELSE @,
             !.beyond = IF i < MAX_TRACKED_TASKS THEN @ ELSE @ \cup {i},
             !.writes[i] = @ + 1,
             !.count = (i + 1) % U8,
             !.holder = 0,
             !.pc[t] = "idle",
             !.ret[t] = "true",
             !.slot[t] = i]
  /\ UNCHANGED <<detector, servo, fbStats, i2c, context>>

----------------------------------------------------------------------------
(* servo_optional.h: SafeServo *)

\* #define SERVO_PIN 48
SERVO_PIN == 48

\* The pins attach() is called with: two valid ones, one above 48, a negative one.
ServoPins == {5, SERVO_PIN, SERVO_PIN + 1, -1}

\* The pins pinMode() can be called for.
ModedPins == {p \in ServoPins : p >= 0}

\* What _inner.attach() can return: a LEDC channel, or a negative value when it
\* found no channel.
Channels == {0, -1}

NoServoCall == [op |-> "-", ret |-> 0, sent |-> FALSE]

\* SafeServo(): _attached(false), _ch(-1), _pin(-1); disableServo as loaded.
\* inner is the wrapped Servo, mode the pinMode of each pin ("-": untouched),
\* refused tells that the last attach() returned -1, last is the last call:
\* its name, the value it returned and whether it passed a command to _inner.
NewServo(disabled) ==
  [disable |-> disabled, attached |-> FALSE, ch |-> -1, pin |-> -1,
   inner |-> [attached |-> FALSE, pin |-> -1],
   mode |-> [p \in ModedPins |-> "-"],
   refused |-> FALSE, everAttached |-> FALSE,
   last |-> NoServoCall]

\* triStatePin(): if (_pin >= 0) pinMode(_pin, INPUT); pinMode(SERVO_PIN, INPUT)
TriStated(mode, pin) ==
  [p \in DOMAIN mode |-> IF p = pin \/ p = SERVO_PIN THEN "input" ELSE mode[p]]

\* variant: the wrapper left attached when detach() finds the servo disabled
DetachedUnlessDisabled(sv) ==
  IF sv.disable THEN sv
  ELSE [sv EXCEPT !.inner.attached = IF sv.attached THEN FALSE ELSE @,
                  !.attached = FALSE,
                  !.mode = TriStated(sv.mode, sv.pin)]

\* detach(): if (_attached) { _inner.detach(); _attached = false; }
\* triStatePin(); powerOff()
Detached(sv) ==
  [sv EXCEPT !.inner.attached = IF sv.attached THEN FALSE ELSE @,
             !.attached = FALSE,
             !.mode = TriStated(sv.mode, sv.pin)]

\* attach(pin): ch is what _inner.attach(pin, minUs, maxUs) returns when it is called
ServoAttach(pin, ch) ==
  LET sv == [servo EXCEPT !.pin = pin]
  IN /\ servo' =
          IF sv.disable
          THEN [sv EXCEPT !.mode = TriStated(sv.mode, pin), !.refused = TRUE,
                          !.last = [op |-> "attach", ret |-> -1, sent |-> FALSE]]
          ELSE IF pin < 0 \/ pin > 48
          THEN [sv EXCEPT !.refused = TRUE,
                          !.last = [op |-> "attach", ret |-> -1, sent |-> FALSE]]
          ELSE [sv EXCEPT
                  !.ch = ch,
                  !.attached = (ch >= 0),
                  !.inner = IF ch >= 0 THEN [attached |-> TRUE, pin |-> pin] ELSE @,
                  !.mode[pin] = IF ch >= 0 THEN "pwm" ELSE @,
                  !.refused = (ch = -1),
                  !.everAttached = @ \/ (ch >= 0),
                  !.last = [op |-> "attach", ret |-> ch, sent |-> FALSE]]
     /\ UNCHANGED <<detector, tasks, fbStats, i2c, context>>

\* detach()
ServoDetach ==
  /\ servo' = [Detached(servo) EXCEPT
                 !.last = [op |-> "detach", ret |-> 0, sent |-> FALSE]]
  /\ UNCHANGED <<detector, tasks, fbStats, i2c, context>>

\* write(angle) and writeMicroseconds(us): the same three statements
ServoWrite(op) ==
  /\ servo' =
       IF servo.disable
       THEN [Detached(servo) EXCEPT !.last = [op |-> op, ret |-> 0, sent |-> FALSE]]
       ELSE IF ~servo.attached
       THEN [servo EXCEPT !.last = [op |-> op, ret |-> 0, sent |-> FALSE]]
       ELSE [servo EXCEPT !.last = [op |-> op, ret |-> 0, sent |-> TRUE]]
  /\ UNCHANGED <<detector, tasks, fbStats, i2c, context>>

\* read() and readMicroseconds(): -1, or the value of _inner (here 90)
ServoRead(op) ==
  /\ servo' = [servo EXCEPT
                 !.last = [op |-> op,
                           ret |-> IF servo.disable \/ ~servo.attached THEN -1 ELSE 90,
                           sent |-> FALSE]]
  /\ UNCHANGED <<detector, tasks, fbStats, i2c, context>>

\* attached(): 1 for true, 0 for false
ServoAttached ==
  /\ servo' = [servo EXCEPT
                 !.last = [op |-> "attached",
                           ret |-> IF servo.disable THEN 0
                                   ELSE IF servo.attached /\ servo.inner.attached
                                   THEN 1 ELSE 0,
                           sent |-> FALSE]]
  /\ UNCHANGED <<detector, tasks, fbStats, i2c, context>>

\* The sketch sets or clears disableServo.
SetDisableServo(b) ==
  /\ servo.disable # b
  /\ servo' = [servo EXCEPT !.disable = b,
                            !.last = [op |-> "disable", ret |-> 0, sent |-> FALSE]]
  /\ UNCHANGED <<detector, tasks, fbStats, i2c, context>>

----------------------------------------------------------------------------
(* debug_framebuffer.h: the framebuffer counters *)
(* The calls are serialised by g_fb_mutex, so each is one step.  The PSRAM *)
(* figures and the two timestamps are read from the heap and the clock and *)
(* feed no other counter; they are left out.                               *)

\* #define FB_LEAK_THRESHOLD 3
FB_LEAK_THRESHOLD == 3

\* Allocations and releases are recorded up to MaxFbCalls times each between
\* two resets, and no more than MaxFbCalls buffers are ever outstanding.
MaxFbCalls == 6

\* After debugFramebufferInit(): memset(&g_fb_stats, 0, ...).  call is the
\* last call made, report what the last debugFramebufferPrintStats() printed.
FbAfterInit ==
  [total_allocations |-> 0, total_releases |-> 0, current_outstanding |-> 0,
   peak_outstanding |-> 0, leak_warnings |-> 0, call |-> "init", report |-> "-"]

\* debugFramebufferAllocated(fb); isNull: esp_camera_fb_get() returned NULL
FbAllocated(isNull) ==
  /\ fbStats.total_allocations < MaxFbCalls
  /\ fbStats.current_outstanding < MaxFbCalls
  /\ LET outstanding == fbStats.current_outstanding + 1
     IN fbStats' =
          IF isNull
          THEN [fbStats EXCEPT !.total_allocations = @ + 1, !.call = "allocated-null"]
          ELSE [fbStats EXCEPT
                  !.total_allocations = @ + 1,
                  !.current_outstanding = outstanding,
                  !.peak_outstanding = IF outstanding > @ THEN outstanding ELSE @,
                  !.leak_warnings = IF outstanding > FB_LEAK_THRESHOLD
                                    THEN @ + 1 ELSE @,
                  !.call = "allocated"]
  /\ UNCHANGED <<detector, tasks, servo, i2c, context>>

\* debugFramebufferReleased(fb): nothing for a NULL fb
FbReleased(isNull) ==
  /\ fbStats.total_releases < MaxFbCalls
  /\ fbStats' =
       IF isNull THEN [fbStats EXCEPT !.call = "released-null"]
       ELSE [fbStats EXCEPT
               !.total_releases = @ + 1,
               !.current_outstanding = IF @ > 0 THEN @ - 1 ELSE @,
               !.call = "released"]
  /\ UNCHANGED <<detector, tasks, servo, i2c, context>>

\* debugFramebufferPrintStats(): the leak line
FbPrintStats ==
  /\ fbStats' = [fbStats EXCEPT
                   !.call = "print",
                   !.report = IF fbStats.total_allocations # fbStats.total_releases
                              THEN "leak" ELSE "none"]
  /\ UNCHANGED <<detector, tasks, servo, i2c, context>>

\* debugFramebufferReset(): everything zeroed but current_outstanding
FbReset ==
  /\ fbStats' = [FbAfterInit EXCEPT
                   !.current_outstanding = fbStats.current_outstanding,
                   !.call = "reset"]
  /\ UNCHANGED <<detector, tasks, servo, i2c, context>>

----------------------------------------------------------------------------
(* debug_i2c.h: the health of the I2C sensors *)
(* The calls are serialised by g_i2c_mutex, so each is one step.  The      *)
(* address, the name, the error-type counters, failed_transactions and the *)
(* microsecond timings feed neither the streak nor the health flag; they   *)
(* are left out.  millis() is an input: last_success_ms is kept as whether *)
(* it is above 0, the time since it as whether it is above                 *)
(* I2C_HANG_THRESHOLD_MS.                                                  *)

\* typedef enum { ... } I2CSensorType
I2C_SENSOR_VL6180X == 0
I2C_SENSOR_VL53L0X == 1
I2C_SENSOR_UNKNOWN == 2
I2C_SENSOR_COUNT == 3

\* #define I2C_FAILURE_STREAK_WARN 5
I2C_FAILURE_STREAK_WARN == 5

I2CSensors == 0..(I2C_SENSOR_COUNT - 1)

\* The sensor arguments of the transactions: the code treats the sensors
\* alike, each through its own element of g_i2c_sensors, so one of them stands
\* for any, next to the out-of-range value I2C_SENSOR_COUNT.
I2CArgs == {I2C_SENSOR_VL53L0X, I2C_SENSOR_COUNT}

\* The sensor arguments of debugI2CReset
I2CResetArgs == {I2C_SENSOR_VL6180X, I2C_SENSOR_VL53L0X, I2C_SENSOR_COUNT}

\* The sensors together have up to MaxI2CStarts transactions started and
\* MaxI2COk ended well between two resets, and up to MaxI2CFailures failed in
\* a row.
MaxI2CStarts == 11
MaxI2COk == 2
MaxI2CFailures == 5

RECURSIVE I2CSum(_, _, _)
I2CSum(sensors, field, s) ==
  IF s = I2C_SENSOR_COUNT THEN 0
  ELSE sensors[s][field] + I2CSum(sensors, field, s + 1)

\* One I2CStats after memset(..., 0, ...) and bus_healthy = true.
\* failedSince counts the failed transactions since the last success or reset.
I2CZeroed ==
  [total_transactions |-> 0, successful_transactions |-> 0,
   success_rate_percentage |-> RatZero, last_success |-> FALSE,
   consecutive_failures |-> 0, max_consecutive_failures |-> 0,
   bus_healthy |-> TRUE, failedSince |-> 0]

\* After debugI2CInit()
I2CAfterInit == [s \in I2CSensors |-> I2CZeroed]

\* debugI2CTransactionEnd: "// Recalculate success rate"
RateRecalculated(stats) ==
  IF stats.total_transactions > 0
  THEN [stats EXCEPT !.success_rate_percentage =
          Rat(100 * stats.successful_transactions, stats.total_transactions)]
  ELSE stats

\* debugI2CTransactionEnd: the success branch
Succeeded(stats) ==
  [stats EXCEPT !.successful_transactions = @ + 1,
                !.last_success = TRUE,
                !.consecutive_failures = 0,
                !.bus_healthy = TRUE,
                !.failedSince = 0]

\* debugI2CTransactionEnd: the failure branch
FailedKeepingHealth(stats) ==
  LET streak == stats.consecutive_failures + 1
  IN [stats EXCEPT !.consecutive_failures = streak,
                   !.max_consecutive_failures = IF streak > @ THEN streak ELSE @,
                   !.failedSince = @ + 1]

Failed(stats) ==
  LET streak == stats.consecutive_failures + 1
  IN [stats EXCEPT !.consecutive_failures = streak,
                   !.max_consecutive_failures = IF streak > @ THEN streak ELSE @,
                   !.bus_healthy = IF streak >= I2C_FAILURE_STREAK_WARN
                                   THEN FALSE ELSE @,
                   !.failedSince = @ + 1]

\* debugI2CTransactionStart(sensor)
I2CTransactionStart(sensor) ==
  /\ sensor < I2C_SENSOR_COUNT
  /\ I2CSum(i2c, "total_transactions", 0) < MaxI2CStarts
  /\ i2c' = [i2c EXCEPT ![sensor].total_transactions = @ + 1]
  /\ UNCHANGED <<detector, tasks, servo, fbStats, context>>

\* debugI2CTransactionEnd(sensor, success, error_type)
I2CTransactionEnd(sensor, success) ==
  /\ sensor < I2C_SENSOR_COUNT
  /\ IF success
     THEN I2CSum(i2c, "successful_transactions", 0) < MaxI2COk
     ELSE I2CSum(i2c, "consecutive_failures", 0) < MaxI2CFailures
  /\ i2c' = [i2c EXCEPT ![sensor] =
               RateRecalculated(IF success THEN Succeeded(@) ELSE Failed(@))]
  /\ UNCHANGED <<detector, tasks, servo, fbStats, context>>

\* One turn of the loop of debugI2CCheckHealth; hung: more than
\* I2C_HANG_THRESHOLD_MS since the last success
HealthChecked(stats, hung) ==
  IF stats.total_transactions = 0 THEN stats
  ELSE IF \/ stats.last_success /\ hung
          \/ /\ RatLess(stats.success_rate_percentage, <<50, 1>>)
             /\ stats.total_transactions > 10
       THEN [stats EXCEPT !.bus_healthy = FALSE]
       ELSE stats

\* debugI2CCheckHealth(); hung: the sensors whose last success is too old
I2CCheckHealth(hung) ==
  /\ i2c' = [s \in I2CSensors |-> HealthChecked(i2c[s], s \in hung)]
  /\ UNCHANGED <<detector, tasks, servo, fbStats, context>>

\* debugI2CReset(sensor): all sensors for I2C_SENSOR_COUNT
I2CReset(sensor) ==
  /\ i2c' = [s \in I2CSensors |->
               IF sensor = I2C_SENSOR_COUNT \/ sensor = s
               THEN I2CZeroed ELSE i2c[s]]
  /\ UNCHANGED <<detector, tasks, servo, fbStats, context>>

----------------------------------------------------------------------------
(* debug_context.h: the ring of context snapshots *)
(* The calls are serialised by g_context_mutex, so each is one step.  A    *)
(* snapshot is its label and its timestamp_ms; the heap and task figures   *)
(* are read from the system, stored and printed alike, and are left out.   *)

\* #define MAX_SNAPSHOTS 10
MAX_SNAPSHOTS == 10

\* #define CONTEXT_BUFFER_MAGIC 0xC0FFEE42, as two 16-bit halves
CONTEXT_BUFFER_MAGIC == <<49407, 60994>>

\* Up to MaxSnapshots snapshots are taken in a run.
MaxSnapshots == 12

\* The labels given to debugContextTakeSnapshot
Labels == {"loop", "publish"}

Slots == 0..(MAX_SNAPSHOTS - 1)

\* A ContextSnapshot of zero bytes
NoSnapshot == [label |-> "", timestamp_ms |-> 0]

NoContextCall == [op |-> "init", available |-> FALSE, snap |-> NoSnapshot,
                  printed |-> <<>>]

\* g_context_buf of zero bytes: the .ino defines it as {0}.  ms is millis();
\* since lists the snapshots taken since the last clear; out is the last call
\* and what it returned or printed.
ContextZeroed ==
  [magic |-> <<0, 0>>, snapshots |-> [i \in Slots |-> NoSnapshot],
   snapshot_index |-> 0, snapshot_count |-> 0, total_snapshots_taken |-> 0,
   first_snapshot_ms |-> 0, last_snapshot_ms |-> 0,
   ms |-> 0, since |-> <<>>, out |-> NoContextCall]

\* debugContextInit()
ContextInit(buf) ==
  IF buf.magic = CONTEXT_BUFFER_MAGIC THEN buf
  ELSE [ContextZeroed EXCEPT !.magic = CONTEXT_BUFFER_MAGIC, !.ms = buf.ms]

ContextAfterInit == ContextInit(ContextZeroed)

\* debugContextTakeSnapshot(label), a millisecond or more after the last
debugContextTakeSnapshot(label) ==
  /\ context.total_snapshots_taken < MaxSnapshots
  /\ LET t == context.ms + 1
         snap == [label |-> label, timestamp_ms |-> t]
     IN context' =
          [context EXCEPT
             !.snapshots[context.snapshot_index] = snap,
             !.snapshot_index = (@ + 1) % MAX_SNAPSHOTS,
             !.snapshot_count = IF @ < MAX_SNAPSHOTS THEN @ + 1 ELSE @,
             !.total_snapshots_taken = @ + 1,
             !.last_snapshot_ms = t,
             !.first_snapshot_ms = IF @ = 0 THEN t ELSE @,
             !.ms = t,
             !.since = Append(@, snap),
             !.out = [NoContextCall EXCEPT !.op = "take"]]
  /\ UNCHANGED <<detector, tasks, servo, fbStats, i2c>>

\* debugContextPrintSnapshots: "// Calculate starting point for chronological order"
StartIdxZero(buf) == 0

StartIdx(buf) ==
  IF buf.snapshot_count < MAX_SNAPSHOTS THEN 0 ELSE buf.snapshot_index

\* debugContextPrintSnapshots(): the snapshots in the order they are printed
debugContextPrintSnapshots ==
  /\ context' =
       [context EXCEPT
          !.out = [NoContextCall EXCEPT
                     !.op = "print",
                     !.printed =
                        [i \in 1..context.snapshot_count |->
                           context.snapshots[(StartIdx(context) + (i - 1))
                                               % MAX_SNAPSHOTS]]]]
  /\ UNCHANGED <<detector, tasks, servo, fbStats, i2c>>

\* debugContextGetLatest(snap), snap not NULL
debugContextGetLatest ==
  /\ context' =
       [context EXCEPT
          !.out =
             IF context.snapshot_count > 0
             THEN [NoContextCall EXCEPT
                     !.op = "latest",
                     !.available = TRUE,
                     !.snap = context.snapshots[
                                (context.snapshot_index - 1 + MAX_SNAPSHOTS)
                                  % MAX_SNAPSHOTS]]
             ELSE [NoContextCall EXCEPT !.op = "latest"]]
  /\ UNCHANGED <<detector, tasks, servo, fbStats, i2c>>

\* debugContextClear()
debugContextClear ==
  /\ context' =
       [ContextZeroed EXCEPT
          !.magic = context.magic,
          !.total_snapshots_taken = context.total_snapshots_taken,
          !.ms = context.ms,
          !.out = [NoContextCall EXCEPT !.op = "clear"]]
  /\ UNCHANGED <<detector, tasks, servo, fbStats, i2c>>

\* The program starts with the statics zeroed and the first detector constructed,
\* the clock at start.
InitAt(start) ==
  /\ obj = "live"
  /\ config = DefaultConfig
  /\ prevFrame = NullBuffer
  /\ prevWidth = 0
  /\ prevHeight = 0
  /\ lastDetectionTime = Zero32
  /\ prevJpegSize = 0
  /\ jpegSizeHistory = [i \in 0..(HistorySlots - 1) |-> 0]
  /\ historyIdx = 0
  /\ now = start
  /\ elapsed = 0
  /\ result = ZeroResult
  /\ call = NoCall("construct", start)
  /\ accepted = NotAccepted
  /\ jpegCalls = 0
  /\ instA = [lastDetectionTime |-> Zero32]
  /\ solo = EmptyHistory
  /\ resetCalls = 3
  /\ heap = EmptyHeap
  /\ pending = "-"
  /\ lastGray = NoBytes
  /\ recorded = [last |-> <<>>, n |-> 0]
  /\ tasks = TasksAfterInit
  /\ servo = NewServo(FALSE)
  /\ fbStats = FbAfterInit
  /\ i2c = I2CAfterInit
  /\ context = ContextAfterInit

----------------------------------------------------------------------------
(* Inputs *)

\* Clock values at the start: power-up, 2 s before millis() wraps, and 65.536 s
\* after power-up.
PowerUp == Zero32
BeforeWrap == <<U16 - 1, U16 - 2000>>
Running == <<1, 0>>

\* Milliseconds between two calls.
Delays == {1000, 2000}
\* Milliseconds between the two millis() reads of an accepted detection.
Durations == {0, 1}
\* detect() is called during the first MaxSeconds seconds.
MaxSeconds == 5
MaxElapsed == MaxSeconds * 1000 + 1

\* blockSize 2, and size bounds that a 4-pixel-wide frame can meet exactly
SmallBlocks ==
  [threshold |-> DefaultThreshold, minSizePercent |-> Rat(25, 1),
   maxSizePercent |-> Rat(50, 1), blockSize |-> 2,
   cooldownMs |-> DefaultCooldownMs]
ZeroBlock == [DefaultConfig EXCEPT !.blockSize = 0]

\* 4x4 frames: blank; block (1,1) bright; the two upper blocks just over the
\* threshold; one bright pixel in each of the four blocks.
Blank4 == GrayFrame(4, 4, UniformPixels(4, 4, 0))
Block4 == GrayFrame(4, 4, RectPixels(4, 4, 0, 2, 2, 3, 3, 100))
Upper4 == GrayFrame(4, 4, RectPixels(4, 4, 0, 0, 0, 3, 1, 26))
Centre4 == GrayFrame(4, 4, RectPixels(4, 4, 0, 1, 1, 2, 2, 100))
\* 4x4 frame: pixel (0,0) at 101, so that block (0,0) of 2x2 differs from
\* the blank frame by a mean of 25.25
Speck4 == GrayFrame(4, 4, RectPixels(4, 4, 0, 0, 0, 0, 0, 101))
\* 5x4 frames (one column beyond the last full block of 2): blank; block (1,0)
\* bright; only the fifth column bright.
Blank5 == GrayFrame(5, 4, UniformPixels(5, 4, 0))
Block5 == GrayFrame(5, 4, RectPixels(5, 4, 0, 2, 0, 3, 1, 100))
Edge5 == GrayFrame(5, 4, RectPixels(5, 4, 0, 4, 0, 4, 3, 100))
\* 64x64 frames: blank; the 16x16 block (1,2) at value 100.
Blank64 == GrayFrame(64, 64, UniformPixels(64, 64, 0))
Block64 == GrayFrame(64, 64, RectPixels(64, 64, 0, 16, 32, 31, 47, 100))

\* 257x257 frames: blank; the one 257x257 block at value 26.
Blank257 == GrayFrame(257, 257, UniformPixels(257, 257, 0))
Dim257 == GrayFrame(257, 257, UniformPixels(257, 257, 26))
\* blockSize 257: blockSize * blockSize does not fit 16 bits
WideBlocks ==
  [threshold |-> DefaultThreshold, minSizePercent |-> Rat(1, 1),
   maxSizePercent |-> Rat(100, 1), blockSize |-> 257,
   cooldownMs |-> DefaultCooldownMs]

GrayFrames == {Blank4, Block4, Upper4, Centre4, Speck4, Blank5, Block5, Edge5}
BlockFrames == {Blank4, Block4, Upper4, Blank5, Block5, Blank64, Block64, Blank257, Dim257}

JpegLengths == {990, 1020, 510, 945, 1110}
JpegFrames == {JpegFrame(640, 480, n) : n \in JpegLengths}

BadFrames ==
  {NoFrame,
   [ptr |-> "frame", buf |-> NullBuffer, len |-> 16, width |-> 4, height |-> 4,
    format |-> "GRAYSCALE"],
   [ptr |-> "frame", buf |-> Buffer(NoBytes), len |-> 0, width |-> 640,
    height |-> 480, format |-> "JPEG"],
   [ptr |-> "frame", buf |-> Buffer(NoBytes), len |-> 32, width |-> 4,
    height |-> 4, format |-> "RGB565"]}

MixedFrames ==
  {Blank4, Block4, JpegFrame(640, 480, 1000), JpegFrame(640, 480, 1300)}
    \cup BadFrames

----------------------------------------------------------------------------
(* Spec: one detector after another, fed grayscale, encoded and bad frames *)

Init == InitAt(PowerUp) \/ InitAt(BeforeWrap)

DetectFrame ==
  \E f \in MixedFrames, dt \in Delays : Detect(f, dt, MaxElapsed, Durations)
Configure == SetConfig(SmallBlocks)

Next == DetectFrame \/ Configure \/ Reset \/ Destroy \/ Construct

Spec == Init /\ [][Next]_vars

----------------------------------------------------------------------------
(* SpecMixed: one detector of a program that has been running for 65.536 s, *)
(* fed grayscale frames of three sizes, encoded and bad frames               *)

\* 8x8 frames: blank; the 2x2 block (1,2) bright.
Blank8 == GrayFrame(8, 8, UniformPixels(8, 8, 0))
Block8 == GrayFrame(8, 8, RectPixels(8, 8, 0, 2, 4, 3, 5, 100))

RunningFrames == MixedFrames \cup {Block5, Blank8, Block8}

DetectMixed ==
  \E f \in RunningFrames, dt \in Delays : Detect(f, dt, MaxElapsed, {0})

NextMixed == DetectMixed \/ Configure \/ Reset

SpecMixed == InitAt(Running) /\ [][NextMixed]_vars

----------------------------------------------------------------------------
(* SpecStamp: one detector fed grayscale and encoded frames that are accepted *)
(* and frames that are size-filtered                                          *)

\* Encoded frames of 1000, 1300 and 2100 bytes: 1000, 1000, 1300 deviates by
\* 18.2 %, a following 2100 by more than 50 %.
StampFrames ==
  {Blank4, Block4, Upper4, Blank5, Block5}
    \cup {JpegFrame(640, 480, n) : n \in {1000, 1300, 2100}}

DetectStamp ==
  \E f \in StampFrames, dt \in Delays : Detect(f, dt, MaxElapsed, Durations)

NextStamp == DetectStamp \/ Configure \/ Reset

SpecStamp == InitAt(Running) /\ [][NextStamp]_vars

----------------------------------------------------------------------------
(* SpecHeap: one detector after another, fed grayscale frames of three sizes, *)
(* with allocations that succeed and allocations that fail                    *)

HeapFrames == {Blank4, Block4, Blank5, Blank8}

DetectHeap ==
  \E f \in HeapFrames, dt \in Delays : Detect(f, dt, MaxElapsed, {0})

NextHeap == DetectHeap \/ Reset \/ Destroy \/ Construct

SpecHeap == InitAt(Running) /\ [][NextHeap]_vars

----------------------------------------------------------------------------
(* SpecGray: one detector fed small grayscale frames *)

DetectGray ==
  \E f \in GrayFrames, dt \in Delays : Detect(f, dt, MaxElapsed, Durations)
ConfigureGray == \E cfg \in {DefaultConfig, SmallBlocks, ZeroBlock} : SetConfig(cfg)

NextGray == DetectGray \/ ConfigureGray \/ Reset

SpecGray == InitAt(Running) /\ [][NextGray]_vars

----------------------------------------------------------------------------
(* SpecBlock: up to MaxFrames frames, one per second, of 4x4 to 257x257 pixels *)

MaxFrames == 2

DetectBlock ==
  \E f \in BlockFrames : Detect(f, 1000, MaxFrames * 1000 + 1, {0})
ConfigureBlock == \E cfg \in {SmallBlocks, WideBlocks} : SetConfig(cfg)

NextBlock == DetectBlock \/ ConfigureBlock

SpecBlock == InitAt(Running) /\ [][NextBlock]_vars

----------------------------------------------------------------------------
(* SpecJpeg: one detector after another, fed encoded frames *)

DetectJpeg ==
  \E f \in JpegFrames, dt \in Delays : Detect(f, dt, MaxElapsed, Durations)

NextJpeg == DetectJpeg \/ Destroy \/ Construct

SpecJpeg == InitAt(Running) /\ [][NextJpeg]_vars

----------------------------------------------------------------------------
(* SpecRing: one detector after another, fed an encoded frame every 700 ms: *)
(* more frames than the ring has slots, some of them suppressed or invalid  *)

RingDelays == {700}

\* Encoded frames of 1000 and 1300 bytes, and one of no bytes.
RingFrames ==
  {JpegFrame(640, 480, 1000), JpegFrame(640, 480, 1300),
   [ptr |-> "frame", buf |-> Buffer(NoBytes), len |-> 0, width |-> 640,
    height |-> 480, format |-> "JPEG"]}

DetectRing ==
  \E f \in RingFrames, dt \in RingDelays : Detect(f, dt, MaxElapsed, {0})

NextRing == DetectRing \/ Reset \/ Destroy \/ Construct

SpecRing == InitAt(Running) /\ [][NextRing]_vars

----------------------------------------------------------------------------
(* SpecTwo: two detectors, both fed encoded frames *)

DetectOwn ==
  \E f \in JpegFrames, dt \in Delays : Detect(f, dt, MaxElapsed, {0})
DetectOnOther ==
  \E f \in JpegFrames, dt \in Delays : DetectOther(f, dt, MaxElapsed)

NextTwo == DetectOwn \/ DetectOnOther

SpecTwo == InitAt(Running) /\ [][NextTwo]_vars

----------------------------------------------------------------------------
(* SpecTasks: two tasks register themselves again and again *)

CheckRegister == \E t \in Callers : RegisterCheck(t)
TakeRegister == \E t \in Callers : RegisterTake(t)
StoreRegister == \E t \in Callers : RegisterStore(t)

NextTasks == CheckRegister \/ TakeRegister \/ StoreRegister

SpecTasks == InitAt(Running) /\ [][NextTasks]_vars

----------------------------------------------------------------------------
(* SpecServo: one SafeServo, attached, commanded, read and detached while *)
(* the sketch sets and clears disableServo                                 *)

AttachServo == \E pin \in ServoPins, ch \in Channels : ServoAttach(pin, ch)
WriteServo == \E op \in {"write", "writeMicroseconds"} : ServoWrite(op)
ReadServo == \E op \in {"read", "readMicroseconds"} : ServoRead(op)
ToggleServo == \E b \in BOOLEAN : SetDisableServo(b)

NextServo ==
  AttachServo \/ ServoDetach \/ WriteServo \/ ReadServo \/ ServoAttached
    \/ ToggleServo

SpecServo == InitAt(Running) /\ [][NextServo]_vars

----------------------------------------------------------------------------
(* SpecFb: framebuffers got (or not), returned, the statistics printed and reset *)

AllocatedFb == \E isNull \in BOOLEAN : FbAllocated(isNull)
ReleasedFb == \E isNull \in BOOLEAN : FbReleased(isNull)

NextFb == AllocatedFb \/ ReleasedFb \/ FbPrintStats \/ FbReset

SpecFb == InitAt(Running) /\ [][NextFb]_vars

----------------------------------------------------------------------------
(* SpecI2C: transactions of a distance sensor, health checks, resets *)

StartI2C == \E sensor \in I2CArgs : I2CTransactionStart(sensor)
EndI2C == \E sensor \in I2CArgs, success \in BOOLEAN : I2CTransactionEnd(sensor, success)
CheckI2C == \E hung \in SUBSET I2CSensors : I2CCheckHealth(hung)
ResetI2C == \E sensor \in I2CResetArgs : I2CReset(sensor)

NextI2C == StartI2C \/ EndI2C \/ CheckI2C \/ ResetI2C

SpecI2C == InitAt(Running) /\ [][NextI2C]_vars

----------------------------------------------------------------------------
(* SpecContext: snapshots taken, read back, printed and cleared *)

TakeSnapshot == \E label \in Labels : debugContextTakeSnapshot(label)

NextContext ==
  TakeSnapshot \/ debugContextPrintSnapshots \/ debugContextGetLatest
    \/ debugContextClear

SpecContext == InitAt(Running) /\ [][NextContext]_vars

----------------------------------------------------------------------------
(* Claims *)

\* The step is a detect() call that took the given path.
Took(path) == call'.op = "detect" /\ call'.path = path

\* The pixels (indices from 0) of grid block b of a frame w wide.
BlockPixels(w, bs, b) ==
  {(b[2] * bs + py) * w + b[1] * bs + px : py \in 0..(bs - 1), px \in 0..(bs - 1)}

\* Frame f differs from the baseline `base` in every pixel of exactly one grid
\* block, by more than the threshold, and nowhere else.
OneBlockDiffers(f, base, cfg) ==
  LET d == {i \in 0..(f.width * f.height - 1) : Byte(f.buf.data, i) # Byte(base, i)}
  IN /\ cfg.blockSize > 0
     /\ d # {}
     /\ LET m == CHOOSE i \in d : TRUE
            b == <<(m % f.width) \div cfg.blockSize,
                   (m \div f.width) \div cfg.blockSize>>
        IN /\ b[1] < f.width \div cfg.blockSize
           /\ b[2] < f.height \div cfg.blockSize
           /\ d = BlockPixels(f.width, cfg.blockSize, b)
           /\ \A i \in d : Abs(Byte(f.buf.data, i) - Byte(base, i)) > cfg.threshold

\* The block (of OneBlockDiffers) that holds the differing pixels.
DifferingBlock(f, base, cfg) ==
  LET m == CHOOSE i \in 0..(f.width * f.height - 1) :
               Byte(f.buf.data, i) # Byte(base, i)
  IN <<(m % f.width) \div cfg.blockSize, (m \div f.width) \div cfg.blockSize>>

\* What C1 says of a comparison of f with a baseline it differs from in block b.
LocalizedResult(r, f, cfg, b) ==
  LET bs == cfg.blockSize
      total == (f.width \div bs) * (f.height \div bs)
  IN /\ r.changedBlocks = 1
     /\ r.totalBlocks = total
     /\ r.x = b[1] * bs
     /\ r.y = b[2] * bs
     /\ r.width = bs
     /\ r.height = bs
     /\ r.sizePercent = Rat(100 * bs * bs, f.width * f.height)
     /\ r.confidence = RatMin(RatOne, Rat(5, total))

\* The 64x64 case of C1: default configuration, block (1,2) at 100 over a blank baseline.
ConcreteResult ==
  [detected |-> TRUE, sizeFiltered |-> FALSE, x |-> 16, y |-> 32, width |-> 16,
   height |-> 16, sizePercent |-> Rat(625, 100), changedBlocks |-> 1,
   totalBlocks |-> 16, confidence |-> Rat(3125, 10000)]

LocalizedChangeStep(blockSizes) ==
  /\ (Took("compare") /\ config.blockSize \in blockSizes
        /\ OneBlockDiffers(call'.frame, prevFrame.data, config))
     => LocalizedResult(result', call'.frame, config,
                        DifferingBlock(call'.frame, prevFrame.data, config))
  /\ (Took("compare") /\ config = DefaultConfig /\ call'.frame = Block64
        /\ prevFrame.data = Blank64.buf.data)
     => result' = ConcreteResult

\* C1: a comparison (same dimensions, not in cooldown) of a frame that differs
\* from the baseline in every pixel of exactly one grid block, by more than the
\* threshold, and nowhere else, returns changedBlocks = 1, totalBlocks =
\* (width div blockSize) * (height div blockSize), the box of that block,
\* sizePercent = blockSize^2 / (width * height) * 100 and confidence =
\* min(1, 5 / totalBlocks); the 64x64 case returns totalBlocks 16, sizePercent
\* 6.25, detected, not sizeFiltered, confidence 0.3125.
C1_LocalizedChange == [][LocalizedChangeStep(1..(U16 - 1))]_vars

\* The same for the block sizes whose square fits 16 bits.
LocalizedChangeNarrow == [][LocalizedChangeStep(1..(U8 - 1))]_vars

\* The 64x64 case has been compared, and a 4x4 frame with one bright block too.
LocalizedChangeSeen ==
  /\ call.op = "detect" /\ call.path = "compare"
  /\ call.frame = Block64 /\ result = ConcreteResult

\* A valid grayscale frame.
GrayCall(f) ==
  f.ptr # "null" /\ ~f.buf.null /\ f.len > 0 /\ f.format = "GRAYSCALE"

FirstObservationStep ==
  LET f == call'.frame
  IN (/\ call'.op = "detect"
      /\ GrayCall(f)
      /\ (prevFrame.null \/ prevWidth # f.width \/ prevHeight # f.height))
     => /\ ~result'.detected
        /\ ~result'.sizeFiltered
        /\ result'.changedBlocks = 0
        /\ Took("first") => /\ ~prevFrame'.null
                            /\ prevFrame'.data = f.buf.data
                            /\ prevWidth' = f.width
                            /\ prevHeight' = f.height

\* C2: a grayscale detect() made when no baseline is held, or when the held
\* baseline's width or height differs from the frame's, returns detected =
\* false, sizeFiltered = false and changedBlocks = 0 whatever the pixels; when
\* the call allocates the baseline and the allocation succeeds, the baseline
\* afterwards is that frame and the stored dimensions are the frame's.
C2_FirstObservation == [][FirstObservationStep]_vars

\* A bright 5x4 frame was taken as the first observation and is the baseline.
FirstObservationSeen ==
  /\ call.op = "detect" /\ call.path = "first" /\ call.frame = Block5
  /\ prevFrame = Buffer(Block5.buf.data) /\ prevWidth = 5 /\ prevHeight = 4
  /\ result = ZeroResult

\* The last two calls were detect() of the same valid grayscale frame, and the
\* second one returned.
SameFrameTwice ==
  /\ call.op = "detect" /\ call.prior # "-" /\ call.path # "crash"
  /\ GrayCall(call.frame)

\* C3 as stated: whenever detect(F) is called twice in a row for a grayscale
\* frame F, the second call returns changedBlocks = 0 and detected = false.
C3_SameFrameTwice ==
  SameFrameTwice => (result.changedBlocks = 0 /\ ~result.detected)

\* C3 amended: the same, when the first of the two calls was not suppressed by
\* cooldown.
C3_SameFrameTwiceStored ==
  (SameFrameTwice /\ call.prior # "cooldown")
     => (result.changedBlocks = 0 /\ ~result.detected)

\* A bright 4x4 frame was compared twice in a row; the second comparison ran
\* over its 4 blocks and found none changed.
SameFrameTwiceSeen ==
  /\ SameFrameTwice /\ call.prior = "compare" /\ call.path = "compare"
  /\ call.frame = Block4 /\ result.totalBlocks = 4 /\ result.changedBlocks = 0
  /\ ~result.detected

SizeFilterStep ==
  (Took("compare") /\ result'.changedBlocks > 0) =>
    LET f == call'.frame
        r == result'
        bs == config.blockSize
        changed == ChangedBlockSet(f.buf.data, prevFrame.data, f.width, f.height,
                                   bs, config.threshold)
        xs == {b[1] : b \in changed}
        ys == {b[2] : b \in changed}
        bw == (MaxOf(xs) - MinOf(xs) + 1) * bs
        bh == (MaxOf(ys) - MinOf(ys) + 1) * bs
        total == (f.width \div bs) * (f.height \div bs)
        pct == Rat(100 * bw * bh, f.width * f.height)
        outside == \/ RatLess(pct, config.minSizePercent)
                   \/ RatLess(config.maxSizePercent, pct)
    IN /\ r.x = MinOf(xs) * bs /\ r.y = MinOf(ys) * bs
       /\ r.width = bw /\ r.height = bh
       /\ r.sizePercent = pct
       /\ r.changedBlocks = Cardinality(changed)
       /\ r.totalBlocks = total
       /\ r.confidence = RatMin(RatOne, Rat(5 * Cardinality(changed), total))
       /\ r.sizeFiltered = outside
       /\ r.detected = ~outside

\* C4: a comparison with changedBlocks > 0 whose sizePercent is below
\* minSizePercent or above maxSizePercent returns sizeFiltered = true and
\* detected = false with box, sizePercent, changedBlocks, totalBlocks and
\* confidence at their measured values; with minSizePercent <= sizePercent <=
\* maxSizePercent it returns detected = true and sizeFiltered = false.
C4_SizeFilter == [][SizeFilterStep]_vars

\* One 2x2 block of a 5x4 frame changed: 20% of the frame, below the 25% minimum.
SizeFilterSeen ==
  /\ call.op = "detect" /\ call.path = "compare" /\ call.frame = Block5
  /\ result.sizeFiltered /\ ~result.detected
  /\ result.sizePercent = Rat(20, 1) /\ result.width = 2 /\ result.height = 2
  /\ result.changedBlocks = 1 /\ result.totalBlocks = 4

\* Boundary cases of the size filter: exactly the minimum, exactly the maximum.
SizeFilterAtMin ==
  call.path = "compare" /\ result.detected /\ result.sizePercent = config.minSizePercent
SizeFilterAtMax ==
  call.path = "compare" /\ result.detected /\ result.sizePercent = config.maxSizePercent
SizeFilterAbove ==
  /\ call.path = "compare" /\ result.sizeFiltered
  /\ RatLess(config.maxSizePercent, result.sizePercent)

CooldownStep ==
  (/\ accepted.any
   /\ call'.op = "detect"
   /\ Less32(Sub32(call'.at, accepted.at), config.cooldownMs))
     => result' = ZeroResult

\* C5: after a detect() that returned detected = true, every later detect() on
\* the same detector made less than cooldownMs after it (difference modulo
\* 2^32, no reset() in between) returns detected = false with all fields zero,
\* whatever the frame.
C5_Cooldown == [][CooldownStep]_vars

\* An encoded frame was submitted within the cooldown of an accepted detection.
CooldownSeen ==
  /\ accepted.any /\ call.op = "detect" /\ call.path = "cooldown"
  /\ call.frame.format = "JPEG" /\ call.frame.len > 0
  /\ Less32(Sub32(call.at, accepted.at), config.cooldownMs)
  /\ result = ZeroResult

OnlyAfterAcceptedStep ==
  Took("cooldown")
     => (accepted.any /\ Less32(Sub32(call'.at, accepted.at), config.cooldownMs))

\* C6: detect() is suppressed by cooldown only when an earlier detect() of this
\* detector, made since construction or the last reset(), returned detected =
\* true less than cooldownMs before the call; with no accepted detection since
\* then, cooldown never suppresses a call, at any clock value.
C6_OnlyAfterAccepted == [][OnlyAfterAcceptedStep]_vars

SuppressedStep ==
  (/\ call'.op = "detect"
   /\ ~InvalidFrame(call'.frame)
   /\ Less32(Sub32(call'.at, lastDetectionTime), config.cooldownMs))
     => UNCHANGED <<prevFrame, prevWidth, prevHeight, jpegSizeHistory, historyIdx,
                    lastDetectionTime>>

BaselineStep == Took("compare") => (~prevFrame.null /\ prevFrame.data = lastGray)

\* C7: a detect() suppressed by cooldown leaves the baseline buffer, the stored
\* dimensions, the JPEG size ring and its cursor and the last-accepted
\* timestamp unchanged; every grayscale comparison is made against the frame
\* of the last grayscale call that was not suppressed.
C7_SuppressedKeepsState == [][SuppressedStep /\ BaselineStep]_vars

\* A bright frame was suppressed while the baseline, stored by the last call
\* that was not suppressed, is the blank frame.
SuppressedSeen ==
  /\ call.op = "detect" /\ call.path = "cooldown" /\ call.frame = Block4
  /\ ~prevFrame.null /\ prevFrame.data = Blank4.buf.data
  /\ lastGray = Blank4.buf.data /\ accepted.any

WarmUpStep ==
  (/\ call'.op = "detect"
   /\ call'.frame.ptr # "null"
   /\ call'.frame.format = "JPEG"
   /\ jpegCalls < 2)
     => ~result'.detected

\* C8: the first two encoded-frame detect() calls made on a detector after its
\* construction never return detected = true, whatever the byte lengths.
C8_WarmUp == [][WarmUpStep]_vars

\* The rolling average: the sum of the non-zero ring entries over their number.
RollingAverage(hist) ==
  (hist[0] + hist[1] + hist[2] + hist[3] + hist[4])
     \div Cardinality({i \in DOMAIN hist : hist[i] > 0})

\* The deviation, in percent, of the last frame's length from the rolling
\* average of the ring that holds it.
Deviation ==
  LET avg == RollingAverage(jpegSizeHistory)
  IN Rat(100 * Abs(call.frame.len - avg), avg)

\* The last call took the heuristic path with at least 3 lengths recorded.
HeuristicVerdict == call.op = "detect" /\ call.path = "jpeg"

\* C9: on the heuristic path, with at least 3 lengths recorded and no cooldown
\* suppression, an encoded frame whose deviation from the rolling average is
\* below 3% returns sizeFiltered = true and detected = false.
C9_SmallDeviation ==
  (HeuristicVerdict /\ RatLess(Deviation, Rat(3, 1)))
     => (result.sizeFiltered /\ ~result.detected)

\* C10: on the heuristic path, with at least 3 lengths recorded and no
\* cooldown suppression, a deviation above 10% and at most 50% returns detected
\* = true and sizeFiltered = false, a deviation above 50% returns detected =
\* false and sizeFiltered = true, and in both cases sizePercent = deviation,
\* confidence = min(1, deviation / 30), the box is (width/4, height/4, width/2,
\* height/2) and changedBlocks = totalBlocks = 0.
C10_LargeDeviation ==
  (HeuristicVerdict /\ RatLess(Rat(10, 1), Deviation)) =>
    LET f == call.frame
        dev == Deviation
        cut == RatLess(Rat(50, 1), dev)
    IN /\ result.detected = ~cut
       /\ result.sizeFiltered = cut
       /\ result.sizePercent = dev
       /\ result.confidence = RatMin(RatOne, Rat(dev[1], 30 * dev[2]))
       /\ result.x = f.width \div 4 /\ result.y = f.height \div 4
       /\ result.width = f.width \div 2 /\ result.height = f.height \div 2
       /\ result.changedBlocks = 0 /\ result.totalBlocks = 0

\* An 11% deviation was accepted.
LargeDeviationSeen ==
  /\ HeuristicVerdict /\ Deviation = Rat(11, 1)
  /\ result.detected /\ ~result.sizeFiltered
  /\ result.sizePercent = Rat(11, 1) /\ result.confidence = Rat(11, 30)
  /\ result.x = 160 /\ result.y = 120 /\ result.width = 320 /\ result.height = 240

\* Deviations of exactly 50%, of more than 50%, of exactly 10% and of 2%.
DeviationAtCut == HeuristicVerdict /\ Deviation = Rat(50, 1) /\ result.detected
DeviationAboveCut ==
  HeuristicVerdict /\ RatLess(Rat(50, 1), Deviation) /\ result.sizeFiltered
DeviationAtThreshold ==
  HeuristicVerdict /\ Deviation = Rat(10, 1) /\ result = ZeroResult
DeviationSmall == HeuristicVerdict /\ Deviation = Rat(2, 1)

\* The detector's fields and the statics of detectFromJpegSize.
detectorState ==
  <<prevFrame, prevWidth, prevHeight, jpegSizeHistory, historyIdx, prevJpegSize,
    lastDetectionTime>>

InvalidFrameStep ==
  LET f == call'.frame
  IN (call'.op = "detect" /\ (f.ptr = "null" \/ f.buf.null \/ f.len = 0))
       => (result' = ZeroResult /\ UNCHANGED detectorState)

\* C11: detect() with a null frame, a null data pointer or a zero length
\* returns the all-zero result and changes neither the baseline buffer, the
\* stored dimensions, the JPEG size ring and cursor nor the last-accepted
\* timestamp, in or out of cooldown.
C11_InvalidFrame == [][InvalidFrameStep]_vars

\* A zero-length encoded frame was submitted outside cooldown to a detector
\* that holds a baseline and a non-empty ring.
InvalidFrameSeen ==
  /\ call.op = "detect" /\ call.path = "invalid"
  /\ call.frame.ptr # "null" /\ call.frame.len = 0 /\ call.frame.format = "JPEG"
  /\ ~Less32(Sub32(call.at, lastDetectionTime), config.cooldownMs)
  /\ ~prevFrame.null /\ jpegSizeHistory[0] > 0
  /\ result = ZeroResult

UnsupportedStep ==
  LET f == call'.frame
  IN (/\ call'.op = "detect"
      /\ f.ptr # "null" /\ ~f.buf.null /\ f.len > 0
      /\ f.format \notin {"GRAYSCALE", "JPEG"})
       => (result' = ZeroResult /\ UNCHANGED detectorState)

\* C12: detect() with a valid frame whose format is neither grayscale nor
\* encoded returns the all-zero result and changes neither the baseline
\* buffer, the stored dimensions, the JPEG size ring and cursor nor the
\* last-accepted timestamp.
C12_UnsupportedFormat == [][UnsupportedStep]_vars

\* An RGB565 frame of the baseline's dimensions was submitted outside cooldown.
UnsupportedSeen ==
  /\ call.op = "detect" /\ call.path = "unsupported"
  /\ call.frame.format = "RGB565"
  /\ ~prevFrame.null /\ prevWidth = call.frame.width
  /\ result = ZeroResult

\* Both allocations of a first observation failed.
AllocationFailedStep ==
  Took("first-nomem")
     => /\ ~result'.detected /\ result' = ZeroResult
        /\ prevFrame'.null /\ prevWidth' = 0 /\ prevHeight' = 0
        /\ heap'.live = 0 /\ ~heap'.doubleFree
        /\ heap.live = (IF prevFrame.null THEN 0 ELSE 1)

\* The next valid grayscale frame after a failed allocation.
RetryStep(calls) ==
  (/\ pending = "nomem"
   /\ call'.op = "detect" /\ GrayCall(call'.frame)
   /\ call'.path \in calls)
     => (call'.path \in {"first", "first-nomem"} /\ ~result'.detected)

AllPaths ==
  {"invalid", "cooldown", "jpeg-warmup", "jpeg", "unsupported", "first",
   "first-nomem", "crash", "compare"}

\* C13 as stated: when both allocations of a first observation fail, detect()
\* returns no detection, no buffer is held afterwards (a buffer held before
\* was released exactly once), the stored dimensions are 0 x 0, and the next
\* grayscale call, of any dimensions, takes the first-observation path again
\* and returns no detection.
C13_AllocationFailure == [][AllocationFailedStep /\ RetryStep(AllPaths)]_vars

\* C13 amended: the same, for the next grayscale call that is not suppressed
\* by cooldown.
C13_AllocationFailureRetry ==
  [][AllocationFailedStep /\ RetryStep(AllPaths \ {"cooldown"})]_vars

\* After a failed allocation that released a held 4x4 buffer, a grayscale
\* call retried the allocation and stored its frame.
AllocationFailureSeen ==
  /\ call.op = "detect" /\ call.path = "first" /\ call.prior = "first-nomem"
  /\ ~prevFrame.null /\ heap.live = 1 /\ result = ZeroResult

\* A failed allocation released the buffer that was held.
AllocationFailureReleased ==
  /\ call.op = "detect" /\ call.path = "first-nomem" /\ call.held
  /\ prevFrame.null /\ heap.live = 0 /\ prevWidth = 0 /\ pending = "nomem"

\* A valid grayscale frame whose dimensions differ from the held baseline's.
DimensionChange(f) ==
  /\ GrayCall(f) /\ ~prevFrame.null
  /\ (prevWidth # f.width \/ prevHeight # f.height)

\* The frame of the step is treated as a new first observation.
NewFirstObservation ==
  LET f == call'.frame
  IN /\ result' = ZeroResult
     /\ ~prevFrame'.null /\ prevFrame'.data = f.buf.data
     /\ prevFrame'.data.w = f.width /\ prevFrame'.data.h = f.height
     /\ prevWidth' = f.width /\ prevHeight' = f.height
     /\ heap.live = 1 /\ heap'.live = 1 /\ ~heap'.doubleFree
     /\ heap'.size = f.width * f.height

\* A comparison reads a baseline of the frame's dimensions.
ComparedLikeSized ==
  Took("compare")
     => /\ prevWidth = call'.frame.width /\ prevHeight = call'.frame.height
        /\ prevFrame.data.w = call'.frame.width
        /\ prevFrame.data.h = call'.frame.height
        /\ heap.size = call'.frame.width * call'.frame.height

\* The call after a first observation, with a frame of the stored dimensions,
\* reaches the comparison and reads the stored frame.
NextIsCompared ==
  (/\ call.op = "detect" /\ call.path = "first"
   /\ call'.op = "detect" /\ GrayCall(call'.frame)
   /\ call'.frame.width = prevWidth /\ call'.frame.height = prevHeight
   /\ call'.path # "cooldown")
     => (call'.path \in {"compare", "crash"} /\ prevFrame.data = call.frame.buf.data)

\* C14 as stated: a grayscale frame whose width or height differs from the
\* stored baseline's is treated as a new first observation: the old buffer is
\* released, a buffer of width*height bytes is allocated, the frame becomes the
\* baseline and the call returns no detection; the next frame of the new
\* dimensions is compared against it, and no comparison reads a baseline of
\* other dimensions than the frame's.
C14_DimensionChange ==
  [][/\ (call'.op = "detect" /\ DimensionChange(call'.frame)) => NewFirstObservation
     /\ NextIsCompared
     /\ ComparedLikeSized]_vars

\* C14 amended: the same for a call that is not suppressed by cooldown and
\* whose allocation succeeds.
C14_DimensionChangeStored ==
  [][/\ (Took("first") /\ DimensionChange(call'.frame)) => NewFirstObservation
     /\ (call'.op = "detect" /\ DimensionChange(call'.frame))
           => (result' = ZeroResult /\ call'.path \in {"first", "first-nomem", "cooldown"})
     /\ NextIsCompared
     /\ ComparedLikeSized]_vars

\* A 5x4 frame replaced a held 4x4 baseline, and a 5x4 frame was then compared.
DimensionChangeStored ==
  /\ call.op = "detect" /\ call.path = "first" /\ call.held
  /\ call.frame = Block5 /\ prevWidth = 5 /\ prevHeight = 4
  /\ heap.live = 1 /\ heap.size = 20 /\ accepted.any
DimensionChangeSeen ==
  /\ call.op = "detect" /\ call.path = "compare" /\ call.frame = Block5
  /\ accepted.any /\ accepted.at # now
  /\ prevWidth = 5 /\ heap.live = 1 /\ heap.size = 20

AfterResetStep ==
  (/\ call'.op = "detect"
   /\ call'.frame.ptr # "null"
   /\ call'.frame.format = "JPEG"
   /\ resetCalls < 2)
     => ~result'.detected

\* C15: after reset() the JPEG size history is empty: the first two
\* encoded-frame detect() calls after reset() return detected = false for any
\* byte lengths, as on a freshly constructed detector.
C15_ResetClearsHistory == [][AfterResetStep]_vars

\* reset() releases the buffer and clears dimensions and timestamp; a second
\* reset() in the state it leaves would change nothing and free nothing.
ResetStep ==
  call'.op = "reset"
     => /\ prevFrame'.null /\ prevWidth' = 0 /\ prevHeight' = 0
        /\ lastDetectionTime' = Zero32
        /\ heap'.live = 0 /\ ~heap'.doubleFree
        /\ heap.live = (IF prevFrame.null THEN 0 ELSE 1)
        /\ HeapFree(heap', prevFrame') = heap'
        /\ UNCHANGED <<config, obj>>

\* The next valid grayscale frame after reset().
AfterResetGray(calls) ==
  (/\ pending = "reset"
   /\ call'.op = "detect" /\ GrayCall(call'.frame)
   /\ call'.path \in calls)
     => call'.path \in {"first", "first-nomem"}

\* C16 as stated: reset() releases the baseline buffer, sets the stored
\* dimensions to 0 x 0 and the last-accepted timestamp to 0, so the next
\* grayscale call is a first observation; reset() is idempotent and never
\* frees a buffer twice.
C16_Reset == [][ResetStep /\ AfterResetGray(AllPaths)]_vars

\* C16 amended: the same, where the next grayscale call that is not
\* suppressed by cooldown is a first observation.
C16_ResetThenFirst == [][ResetStep /\ AfterResetGray(AllPaths \ {"cooldown"})]_vars

\* reset() was called on a detector holding a buffer, then on the detector
\* holding none; a grayscale frame then was a first observation.
ResetSeen ==
  /\ call.op = "reset" /\ prevFrame.null /\ heap.live = 0 /\ ~heap.doubleFree
  /\ accepted = NotAccepted /\ lastGray # NoBytes /\ lastDetectionTime = Zero32
ResetThenFirstSeen ==
  /\ call.op = "detect" /\ call.path = "first" /\ ~call.held
  /\ lastGray = Block4.buf.data /\ resetCalls < 3 /\ heap.live = 1

\* C17: the JPEG size history is owned by one detector: the results a
\* detector returns for its own encoded frames are the same whether or not
\* encoded frames are given to another detector in between, that is, they are
\* the results its own calls alone produce.
C17_HistoryOwned ==
  (call.op = "detect" /\ call.path \in {"jpeg", "jpeg-warmup"})
     => result = solo.result

----------------------------------------------------------------------------
(* Confidence *)

\* The last call compared blocks and counted at least one.
CountedBlocks ==
  call.op = "detect" /\ call.path = "compare" /\ result.changedBlocks > 0

\* C18: in every result detect() returns, confidence lies between 0 and 1
\* inclusive; after a block comparison that counted at least one block it is
\* min(1, 5 * changedBlocks / totalBlocks), hence 1 exactly when
\* 5 * changedBlocks >= totalBlocks; and it is 0 in every result with neither
\* detected nor sizeFiltered set.
C18_Confidence ==
  /\ ~RatLess(result.confidence, RatZero)
  /\ ~RatLess(RatOne, result.confidence)
  /\ CountedBlocks =>
       /\ result.confidence =
            (IF 5 * result.changedBlocks >= result.totalBlocks THEN RatOne
             ELSE Rat(5 * result.changedBlocks, result.totalBlocks))
       /\ (result.confidence = RatOne
             <=> 5 * result.changedBlocks >= result.totalBlocks)
  /\ (~result.detected /\ ~result.sizeFiltered) => result.confidence = RatZero

\* a comparison whose confidence is strictly between 0 and 1
ConfidenceScaled ==
  /\ CountedBlocks
  /\ RatLess(RatZero, result.confidence)
  /\ RatLess(result.confidence, RatOne)

\* a comparison whose confidence is capped at 1 with 5 * changedBlocks > totalBlocks
ConfidenceCapped ==
  /\ CountedBlocks
  /\ 5 * result.changedBlocks > result.totalBlocks
  /\ result.confidence = RatOne

\* an encoded-frame result with a confidence strictly between 0 and 1
ConfidenceFromSize ==
  /\ call.op = "detect" /\ call.path = "jpeg"
  /\ result.detected
  /\ RatLess(result.confidence, RatOne)

----------------------------------------------------------------------------
(* The baseline after a comparison *)

\* The call stores its frame: pixels and dimensions.
StoresFrameStep ==
  Took("compare") =>
    /\ prevFrame' = Buffer(call'.frame.buf.data)
    /\ prevWidth' = call'.frame.width
    /\ prevHeight' = call'.frame.height

\* The call compares its frame with the last grayscale frame a call that was
\* not suppressed was given, and with no earlier one.
AgainstPrecedingStep ==
  Took("compare") =>
    result' = CompareResult(call'.frame,
                ChangedBlockSet(call'.frame.buf.data, lastGray, call'.frame.width,
                                call'.frame.height, config.blockSize,
                                config.threshold),
                config)

\* C19: after every grayscale detect() call that reaches the block comparison
\* the stored baseline equals the submitted frame, whatever the outcome (no
\* changed block, a size-filtered change, an accepted detection); each
\* comparison is therefore against the immediately preceding stored frame only.
C19_BaselineReplaced == [][StoresFrameStep /\ AgainstPrecedingStep]_vars

\* a comparison that replaced a different baseline
Replaced(outcome) ==
  /\ call.op = "detect" /\ call.path = "compare"
  /\ prevFrame = Buffer(call.frame.buf.data)
  /\ outcome

BaselineReplacedFiltered ==
  Replaced(result.sizeFiltered /\ ~result.detected /\ result.changedBlocks > 0)

BaselineReplacedAccepted == Replaced(result.detected)

BaselineReplacedUnchanged ==
  Replaced(result.changedBlocks = 0 /\ call.prior = "compare")

----------------------------------------------------------------------------
(* Which blocks count as changed *)

\* The blocks of frame f whose sum of absolute differences from the baseline
\* is greater than threshold * blockSize^2: those whose exact mean difference
\* is greater than threshold.
MeanExceeds(f, baseline, cfg) ==
  {b \in (0..((f.width \div cfg.blockSize) - 1))
           \X (0..((f.height \div cfg.blockSize) - 1)) :
     BlockDiff(f.buf.data, baseline, f.width, cfg.blockSize, b[1], b[2])
       > cfg.threshold * cfg.blockSize * cfg.blockSize}

MeanExceedsStep ==
  Took("compare") =>
    result'.changedBlocks =
      Cardinality(MeanExceeds(call'.frame, prevFrame.data, config))

\* C20: in a block comparison a block is counted in changedBlocks exactly when
\* its mean absolute pixel difference, as the exact ratio of the sum of
\* |current - previous| over the block to blockSize^2, is greater than
\* threshold, that is when the sum is greater than threshold * blockSize^2.
C20_MeanExceedsThreshold == [][MeanExceedsStep]_vars

----------------------------------------------------------------------------
(* What moves the last-accepted timestamp *)

\* lastDetectionTime changes only in a detect() call that returns detected =
\* true, and in reset().
StampedStep ==
  lastDetectionTime' # lastDetectionTime =>
    \/ call'.op = "detect" /\ call'.path \in {"compare", "jpeg"} /\ result'.detected
    \/ call'.op = "reset"

\* A detect() call that returns without detected = true leaves it unchanged.
UnstampedStep ==
  (call'.op = "detect" /\ call'.path # "crash" /\ ~result'.detected)
     => lastDetectionTime' = lastDetectionTime

\* C21: the last-accepted timestamp changes only in a detect() call that
\* returns detected = true and in reset(); a call that returns sizeFiltered =
\* true or no detection, on either path, leaves it unchanged, so a
\* size-filtered event never starts a cooldown.
C21_StampOnlyAccepted == [][StampedStep /\ UnstampedStep]_vars

\* a size-filtered result on the given path, after a detection was accepted,
\* with the timestamp still that of the accepted detection
FilteredUnstamped(path) ==
  /\ call.op = "detect" /\ call.path = path
  /\ result.sizeFiltered /\ ~result.detected
  /\ accepted.any /\ lastDetectionTime = accepted.at
  /\ call.at # accepted.at

FilteredBlocksUnstamped == FilteredUnstamped("compare")
FilteredSizeUnstamped == FilteredUnstamped("jpeg")

----------------------------------------------------------------------------
(* blockSize *)

\* C22: in every reachable detector state, also after any setConfig() call,
\* config.blockSize is greater than 0, so that no grayscale detect() call
\* divides by zero in the grid computation and every call returns.
C22_BlockSizePositive == config.blockSize > 0 /\ obj # "crashed"

\* For each block of the grid, the divisor of the block mean is blockSize *
\* blockSize and not zero, and the quotient is at most 255.
DivisorExactStep ==
  Took("compare") =>
    LET f == call'.frame
        bs == config.blockSize
    IN \A b \in (0..((f.width \div bs) - 1)) \X (0..((f.height \div bs) - 1)) :
         /\ PixelsInBlock(bs) = bs * bs
         /\ PixelsInBlock(bs) # 0
         /\ BlockDiff(f.buf.data, prevFrame.data, f.width, bs, b[1], b[2])
              \div PixelsInBlock(bs) <= U8 - 1

\* C23: for every blockSize from 1 to 65535 the divisor used for a block's
\* mean equals blockSize * blockSize and is not zero, and the mean is at most
\* 255: neither the 16-bit product nor the 8-bit mean wraps.
C23_DivisorExact == [][DivisorExactStep]_vars

----------------------------------------------------------------------------
(* The baseline buffer *)

\* Buffers allocated minus buffers freed is 0 or 1, and 1 exactly when the
\* baseline pointer is not null; no buffer was freed twice; a pointer that is
\* not null points to a live buffer of prevWidth * prevHeight bytes; a live
\* detector that holds no buffer has dimensions 0 x 0.
OneBuffer ==
  /\ heap.live \in {0, 1}
  /\ heap.live = 1 <=> ~prevFrame.null
  /\ ~heap.doubleFree
  /\ ~prevFrame.null => heap.size = prevWidth * prevHeight
  /\ (obj = "live" /\ prevFrame.null) => (prevWidth = 0 /\ prevHeight = 0)

\* Each memcpy into the baseline (first observation, comparison) writes
\* width * height bytes, the size of the buffer held.
CopyFitsStep ==
  (Took("first") \/ Took("compare")) =>
    /\ ~prevFrame'.null
    /\ heap'.live = 1
    /\ call'.frame.width * call'.frame.height = heap'.size
    /\ prevFrame' = Buffer(call'.frame.buf.data)

BufferLost ==
  /\ call.op = "detect" /\ call.path = "first-nomem" /\ call.held
  /\ heap.live = 0 /\ prevFrame.null

\* the detector was destroyed while holding a buffer
BufferFreedAtEnd == obj = "dead" /\ heap.live = 0 /\ lastGray # NoBytes

----------------------------------------------------------------------------
(* The bounding box *)

\* The blocks the comparison of the step counts as changed.
Counted ==
  ChangedBlockSet(call'.frame.buf.data, prevFrame.data, call'.frame.width,
                  call'.frame.height, config.blockSize, config.threshold)

\* The box of the result is the smallest block-aligned rectangle that
\* contains every counted block, lies inside the frame, and spans at least as
\* many blocks as were counted and at most the grid.
TightBoxStep ==
  (Took("compare") /\ result'.changedBlocks > 0) =>
    LET r == result'
        f == call'.frame
        bs == config.blockSize
        left == r.x
        right == r.x + r.width
        top == r.y
        bottom == r.y + r.height
    IN /\ r.changedBlocks = Cardinality(Counted)
       /\ r.x % bs = 0 /\ r.y % bs = 0 /\ r.width % bs = 0 /\ r.height % bs = 0
       /\ \A b \in Counted :
            /\ left <= b[1] * bs /\ (b[1] + 1) * bs <= right
            /\ top <= b[2] * bs /\ (b[2] + 1) * bs <= bottom
       /\ \E b \in Counted : b[1] * bs = left
       /\ \E b \in Counted : (b[1] + 1) * bs = right
       /\ \E b \in Counted : b[2] * bs = top
       /\ \E b \in Counted : (b[2] + 1) * bs = bottom
       /\ right <= f.width /\ bottom <= f.height
       /\ r.changedBlocks <= (r.width \div bs) * (r.height \div bs)
       /\ (r.width \div bs) * (r.height \div bs) <= r.totalBlocks
       /\ r.changedBlocks = 1 => (r.width = bs /\ r.height = bs)

\* C25: whenever a block comparison finds changedBlocks > 0, the box (x, y,
\* width, height) is the smallest block-aligned rectangle containing every
\* changed block; it lies inside the frame, and changedBlocks <=
\* (width / blockSize) * (height / blockSize) <= totalBlocks; a single changed
\* block yields a box of exactly blockSize x blockSize.
C25_TightBox == [][TightBoxStep]_vars

\* a box that spans more blocks than changed: three of the four blocks of a
\* 4x4 frame
BoxSpansUnchanged ==
  /\ call.op = "detect" /\ call.path = "compare"
  /\ result.changedBlocks = 3
  /\ result.x = 0 /\ result.y = 0 /\ result.width = 4 /\ result.height = 4

\* a single changed block away from the origin
BoxOfOneBlock ==
  /\ call.op = "detect" /\ call.path = "compare"
  /\ result.changedBlocks = 1
  /\ result.x = 2 /\ result.y = 2 /\ result.width = 2 /\ result.height = 2

----------------------------------------------------------------------------
(* The pixels beyond the last full block *)

\* Pixel idx of a frame w wide lies in a full block of the grid of a w x h frame.
InGrid(idx, w, h, bs) ==
  /\ idx % w < (w \div bs) * bs
  /\ idx \div w < (h \div bs) * bs

\* Frame f and the baseline differ, and in no pixel of the grid.
DiffersOutsideGrid(f, baseline, bs) ==
  /\ f.buf.data # baseline
  /\ \A idx \in 0..(f.width * f.height - 1) :
       InGrid(idx, f.width, f.height, bs)
          => Byte(f.buf.data, idx) = Byte(baseline, idx)

EdgeIgnoredStep ==
  Took("compare") =>
    LET f == call'.frame
        bs == config.blockSize
    IN /\ result'.totalBlocks = (f.width \div bs) * (f.height \div bs)
       /\ DiffersOutsideGrid(f, prevFrame.data, bs)
            => (result'.changedBlocks = 0 /\ ~result'.detected)
       /\ (f.width < bs \/ f.height < bs)
            => (result'.totalBlocks = 0 /\ ~result'.detected)

\* C26: in a block comparison totalBlocks = (width div blockSize) * (height
\* div blockSize), and pixels in columns or rows beyond the last full block
\* never influence the result: a frame that differs from the baseline only in
\* such pixels yields changedBlocks = 0 and detected = false, and a frame
\* smaller than one block in either axis yields totalBlocks = 0 and no
\* detection.
C26_EdgeIgnored == [][EdgeIgnoredStep]_vars

\* a 5x4 frame compared in 2x2 blocks with a baseline that differs in the
\* fifth column only
EdgeColumnDiffers ==
  /\ call.op = "detect" /\ call.path = "compare"
  /\ config.blockSize = 2 /\ call.frame.width = 5
  /\ result.totalBlocks = 4 /\ result.changedBlocks = 0
  /\ call.frame \in {Edge5, Blank5} /\ call.held /\ ~call.same

\* a 4x4 frame compared in 16x16 blocks
SmallerThanBlock ==
  /\ call.op = "detect" /\ call.path = "compare"
  /\ config.blockSize = 16 /\ result.totalBlocks = 0

----------------------------------------------------------------------------
(* The ring of encoded-frame lengths *)

\* The slot written k writes ago, k from 1.
SlotBefore(k) == (historyIdx + HistorySlots - k) % HistorySlots

\* The ring holds the lengths of the last min(n, 5) recorded frames, the
\* newest just before the cursor, and 0 in the slots never written.
RingHoldsLast ==
  LET held == Len(recorded.last)
  IN /\ held = (IF recorded.n < HistorySlots THEN recorded.n ELSE HistorySlots)
     /\ \A k \in 1..held :
          jpegSizeHistory[SlotBefore(k)] = recorded.last[held - k + 1]
     /\ \A k \in (held + 1)..HistorySlots : jpegSizeHistory[SlotBefore(k)] = 0

\* An encoded frame that is invalid or suppressed by cooldown is not recorded.
NotRecordedStep ==
  (Took("invalid") \/ Took("cooldown")) =>
    /\ jpegSizeHistory' = jpegSizeHistory
    /\ historyIdx' = historyIdx

\* C27: after any sequence of calls the ring cursor is in 0..4 and the ring
\* holds exactly the byte lengths of the last min(n, 5) encoded frames that
\* reached the heuristic, n being the number of such frames so far, the sixth
\* and later frames overwriting the oldest entry; encoded frames rejected as
\* invalid or suppressed by cooldown are not recorded.
C27_RingHoldsLast ==
  [](historyIdx \in 0..(HistorySlots - 1) /\ RingHoldsLast)
    /\ [][NotRecordedStep]_vars

\* the sixth frame, of 1300 bytes, overwrote the oldest entry
RingWrapped ==
  /\ recorded.n > HistorySlots
  /\ historyIdx = 1
  /\ jpegSizeHistory[0] = 1300 /\ jpegSizeHistory[1] = 1000

\* an encoded frame was suppressed by cooldown with the ring partly filled
RingSkipsSuppressed ==
  /\ call.op = "detect" /\ call.path = "cooldown" /\ call.frame.format = "JPEG"
  /\ recorded.n \in 3..(HistorySlots - 1)

----------------------------------------------------------------------------
(* The average an encoded frame is judged against *)

\* The non-zero entries of a ring.
NonZero(hist) == {i \in DOMAIN hist : hist[i] > 0}

RECURSIVE SumOver(_, _)
SumOver(hist, slots) ==
  IF slots = {} THEN 0
  ELSE LET i == CHOOSE j \in slots : TRUE
       IN hist[i] + SumOver(hist, slots \ {i})

\* The integer quotient of the sum of the non-zero entries by their number.
MeanOfNonZero(hist) == SumOver(hist, NonZero(hist)) \div Cardinality(NonZero(hist))

\* A call that reaches the heuristic writes the frame's length at the cursor.
CurrentWrittenStep ==
  (Took("jpeg") \/ Took("jpeg-warmup")) =>
    /\ jpegSizeHistory'[historyIdx] = call'.frame.len
    /\ \A i \in DOMAIN jpegSizeHistory \ {historyIdx} :
         jpegSizeHistory'[i] = jpegSizeHistory[i]

\* The verdict is that of the deviation of the frame's length from the mean
\* of the ring that already holds it.
JudgedWithCurrentStep ==
  Took("jpeg") =>
    LET len == call'.frame.len
        avg == MeanOfNonZero(jpegSizeHistory')
        dev == Rat(100 * Abs(len - avg), avg)
    IN /\ historyIdx \in NonZero(jpegSizeHistory')
       /\ (result'.detected \/ result'.sizeFiltered) <=> RatLess(Rat(10, 1), dev)
       /\ (result'.detected \/ result'.sizeFiltered) => result'.sizePercent = dev

\* C28: the average against which an encoded frame is judged is the integer
\* quotient (sum of the non-zero ring entries) div (their count), taken after
\* the current frame's length has been written into the ring, so that the
\* current length is always one of the averaged entries; the deviation is
\* |currentLength - average| / average * 100.
C28_AverageHoldsCurrent == [][CurrentWrittenStep /\ JudgedWithCurrentStep]_vars

\* lengths 510, 510, 945: the mean with the current frame is 655 and the
\* deviation 44.3 %; the mean of the two earlier frames is 510 (85.3 %)
JudgedWithCurrent ==
  /\ call.op = "detect" /\ call.path = "jpeg" /\ call.frame.len = 945
  /\ recorded.last = <<510, 510, 945>>
  /\ result.detected /\ result.sizePercent = Rat(5800, 131)

----------------------------------------------------------------------------
(* One clock value per call *)

SingleClockStep ==
  (call'.op = "detect" /\ call'.path \in {"compare", "jpeg"} /\ result'.detected)
     => lastDetectionTime' = call'.at

\* C29: each detect() call uses a single clock value: when a call returns
\* detected = true, the last-accepted timestamp it stores equals the clock
\* value its own cooldown check was made against, even if the clock advances
\* while the call runs.
C29_SingleClock == [][SingleClockStep]_vars

----------------------------------------------------------------------------
(* Well-formed results *)

\* The last call returned the result of a block comparison.
Compared == call.op = "detect" /\ call.path = "compare"

TooLargeFiltered ==
  /\ Compared /\ result.sizeFiltered /\ ~result.detected
  /\ RatLess(config.maxSizePercent, result.sizePercent)

ComparedEqual == Compared /\ call.same /\ result.changedBlocks = 0

\* an encoded-frame result that is size-filtered
EncodedFiltered ==
  call.op = "detect" /\ call.path = "jpeg" /\ result.sizeFiltered

----------------------------------------------------------------------------
(* debugTasksRegister() under concurrent callers *)

\* C31: with several tasks calling debugTasksRegister concurrently,
\* g_task_count never exceeds MAX_TRACKED_TASKS (10), no entry at index 10 or
\* beyond is ever written, and a call returns true only if it stored its task
\* in a slot no other call stored into.
C31_RegisterBounded ==
  /\ tasks.count <= MAX_TRACKED_TASKS
  /\ tasks.beyond = {}
  /\ \A t \in Callers :
       tasks.ret[t] = "true" =>
         /\ tasks.slot[t] \in 0..(MAX_TRACKED_TASKS - 1)
         /\ tasks.writes[tasks.slot[t]] = 1

----------------------------------------------------------------------------
(* SafeServo while disabled *)

\* The wrapper is not attached and its pin, when it has one, is an input.
MadeSafe(sv) ==
  /\ ~sv.attached
  /\ sv.pin \in ModedPins => sv.mode[sv.pin] = "input"

\* write() and writeMicroseconds() with disableServo set pass nothing on and
\* leave the wrapper detached, its pin an input.
DisabledWriteStep ==
  (servo.disable /\ servo'.last.op \in {"write", "writeMicroseconds"}) =>
    /\ ~servo'.last.sent
    /\ MadeSafe(servo')
    /\ servo.attached => ~servo'.inner.attached

\* attached() is false and read(), readMicroseconds() are -1 while disabled.
DisabledReadStep ==
  /\ (servo.disable /\ servo'.last.op = "attached") => servo'.last.ret = 0
  /\ (servo.disable /\ servo'.last.op \in {"read", "readMicroseconds"})
        => servo'.last.ret = -1

\* detach() leaves the wrapper detached and its pin an input, and a second
\* detach() changes nothing.
DetachStep ==
  servo'.last.op = "detach" =>
    /\ MadeSafe(servo')
    /\ servo.last.op = "detach" => servo' = servo

\* C32: while disableServo is true, write() and writeMicroseconds() never
\* forward a command to the underlying servo: they detach instead, after which
\* the wrapper is not attached and the control pin is set to input; attached()
\* returns false and read(), readMicroseconds() return -1.  detach() always
\* leaves the wrapper not attached and the pin set to input, whether or not
\* the servo is disabled, and is idempotent.
C32_SafeWhileDisabled ==
  [][DisabledWriteStep /\ DisabledReadStep /\ DetachStep]_vars

\* a write() made while disabled detached an attached wrapper
DisabledWriteDetached ==
  /\ servo.disable /\ servo.last.op = "write"
  /\ servo.everAttached /\ ~servo.refused
  /\ ~servo.attached /\ ~servo.inner.attached
  /\ servo.pin = 5 /\ servo.mode[5] = "input"

\* C33: if attach() returns -1 (servo disabled at attach time, or pin outside
\* 0..48) the wrapper is not attached afterwards: no later write() or
\* writeMicroseconds() is forwarded to the underlying servo until a subsequent
\* attach() succeeds, even if disableServo is cleared in between and even if
\* an earlier attach() had succeeded.
C33_RefusedAttach == servo.refused => (~servo.attached /\ ~servo.last.sent)

----------------------------------------------------------------------------
(* The framebuffer counters *)

\* C34: in every state reached through debugFramebufferAllocated,
\* debugFramebufferReleased and debugFramebufferReset, total_allocations -
\* total_releases equals current_outstanding, so that
\* debugFramebufferPrintStats reports no leak exactly when no framebuffer is
\* outstanding (also after a NULL from esp_camera_fb_get() was recorded).
C34_CountersBalance ==
  /\ fbStats.total_allocations - fbStats.total_releases
       = fbStats.current_outstanding
  /\ fbStats.call = "print" =>
       (fbStats.report = "none" <=> fbStats.current_outstanding = 0)

\* C35: in every state reached through debugFramebufferAllocated,
\* debugFramebufferReleased and debugFramebufferReset, current_outstanding
\* never wraps below 0 (a release with nothing outstanding leaves it 0) and
\* peak_outstanding >= current_outstanding; leak_warnings increases by one
\* exactly on each allocation that leaves more than FB_LEAK_THRESHOLD (3)
\* buffers outstanding.
C35_PeakAndWarnings ==
  [](/\ fbStats.current_outstanding \in 0..MaxFbCalls
     /\ fbStats.peak_outstanding >= fbStats.current_outstanding)
  /\ [][/\ (fbStats'.call = "released" /\ fbStats.current_outstanding = 0)
             => fbStats'.current_outstanding = 0
        /\ fbStats'.leak_warnings = fbStats.leak_warnings + 1
             <=> (/\ fbStats'.call = "allocated"
                  /\ fbStats'.current_outstanding > FB_LEAK_THRESHOLD)
        /\ fbStats'.leak_warnings # fbStats.leak_warnings + 1
             => (fbStats'.leak_warnings = fbStats.leak_warnings
                   \/ fbStats'.call = "reset")]_vars

----------------------------------------------------------------------------
(* The I2C health *)

\* C36: for each sensor, after any sequence of debugI2CTransactionStart/End,
\* debugI2CCheckHealth and debugI2CReset calls, consecutive_failures is the
\* number of failed transactions since the last success or reset,
\* max_consecutive_failures >= consecutive_failures, bus_healthy is false
\* whenever consecutive_failures >= 5, and a successful transaction sets
\* consecutive_failures to 0 and bus_healthy to true.
StreakCounted(stats) ==
  /\ stats.consecutive_failures = stats.failedSince
  /\ stats.max_consecutive_failures >= stats.consecutive_failures
  /\ stats.consecutive_failures >= I2C_FAILURE_STREAK_WARN => ~stats.bus_healthy

SuccessStep ==
  \A s \in I2CSensors :
    I2CTransactionEnd(s, TRUE) =>
      /\ i2c'[s].consecutive_failures = 0
      /\ i2c'[s].bus_healthy

C36_StreakAndHealth ==
  [](\A s \in I2CSensors : StreakCounted(i2c[s])) /\ [][SuccessStep]_vars

\* A sensor that failed five times in a row and then succeeded.
RecoveredAfterStreak ==
  \E s \in I2CSensors :
    /\ i2c[s].max_consecutive_failures >= I2C_FAILURE_STREAK_WARN
    /\ i2c[s].successful_transactions > 0
    /\ i2c[s].consecutive_failures = 0
    /\ i2c[s].bus_healthy

\* A sensor in its fifth failure in a row.
StreakUnhealthy ==
  \E s \in I2CSensors :
    /\ i2c[s].consecutive_failures >= I2C_FAILURE_STREAK_WARN
    /\ ~i2c[s].bus_healthy

----------------------------------------------------------------------------
(* The context snapshots *)

\* The last n elements of a sequence, in order.
LastOf(seq, n) == [i \in 1..n |-> seq[Len(seq) - n + i]]

\* C37: after any sequence of debugContextTakeSnapshot and debugContextClear
\* calls following debugContextInit on a zeroed buffer, snapshot_index is in
\* 0..9, snapshot_count = min(snapshots taken since the last clear, 10),
\* debugContextGetLatest returns false when no snapshot is stored and
\* otherwise the most recently taken snapshot, the stored snapshots read from
\* the start index are in the order they were taken, and debugContextClear
\* keeps magic and total_snapshots_taken.
SnapshotsKept ==
  LET taken == Len(context.since)
      kept == IF taken < MAX_SNAPSHOTS THEN taken ELSE MAX_SNAPSHOTS
  IN /\ context.snapshot_index \in 0..(MAX_SNAPSHOTS - 1)
     /\ context.snapshot_count = kept
     /\ context.out.op = "latest" =>
          /\ context.out.available = (taken > 0)
          /\ taken > 0 => context.out.snap = context.since[taken]
     /\ context.out.op = "print" =>
          context.out.printed = LastOf(context.since, kept)

ClearStep ==
  context'.out.op = "clear" =>
    /\ context'.magic = context.magic
    /\ context'.magic = CONTEXT_BUFFER_MAGIC
    /\ context'.total_snapshots_taken = context.total_snapshots_taken

C37_SnapshotRing == []SnapshotsKept /\ [][ClearStep]_vars

\* The ring printed after it wrapped, the oldest snapshot not in slot 0.
WrappedRingPrinted ==
  /\ context.out.op = "print"
  /\ context.snapshot_count = MAX_SNAPSHOTS
  /\ context.snapshot_index # 0
  /\ Len(context.since) > MAX_SNAPSHOTS


====
